---- MODULE Spec2Model ----
(***************************************************************************)
(* Job lifecycle and batch finalization of the tender extraction workers:  *)
(* the queue consumer loop (workers/queue_worker.py), the file processing  *)
(* task (workers/processing/extractor.py), the aggregator and the job      *)
(* store operations (workers/database/operations.py).                      *)
(*                                                                         *)
(* The store is a relational database used through one ORM session per     *)
(* dispatch (workers/database/connection.py: autoflush off, one            *)
(* transaction per `with get_session`).  A session's SQL reads see the     *)
(* committed rows plus the rows the session itself has flushed; what a     *)
(* session has only set on its in-memory objects reaches the store at the  *)
(* next flush or at commit.  An UPDATE waits for the row lock of another   *)
(* session's uncommitted write.                                            *)
(***************************************************************************)
EXTENDS Integers, Sequences, FiniteSets, Bags, TLC

\* ---------------------------------------------------------------- bounds
NumConsumers == 2
NumDocs == 2
MaxDocs == 5
max_retry_attempts == 2
MaxRequeue == 1
MaxCalls == 2
MaxFaults == 1
MaxAttempts == 4

Consumers == 1..NumConsumers
Docs == 1..MaxDocs

BatchId == "b1"
NoId == "none"

\* ------------------------------------------------- models.py status values
STATUS_PENDING == "pending"
STATUS_PROCESSING == "processing"
STATUS_SUCCESS == "SUCCESS"
STATUS_FAILED == "FAILED"
STATUS_SKIPPED == "SKIPPED"
Absent == "absent"

FileStatuses ==
  {STATUS_PENDING, STATUS_PROCESSING, STATUS_SUCCESS, STATUS_FAILED, STATUS_SKIPPED}

JOB_PENDING == "pending"
JOB_QUEUED == "queued"
JOB_EXTRACTING == "extracting"
JOB_PROCESSING == "processing"
STATUS_COMPLETED == "completed"
STATUS_COMPLETED_WITH_ERRORS == "completed_with_errors"
JOB_FAILED == "failed"

JobStatuses ==
  {JOB_PENDING, JOB_QUEUED, JOB_EXTRACTING, JOB_PROCESSING,
   STATUS_COMPLETED, STATUS_COMPLETED_WITH_ERRORS, JOB_FAILED}

\* The failures drawn for a processing attempt, by their classified kind.
FailKinds == {"RETRYABLE"}

VARIABLES
  files,      \* committed file_extractions rows: [Docs -> file record]
  frun,       \* committed file_extractions.run_id: [Docs -> run id]
  batch,      \* the committed processing_jobs row of batch BatchId
  rsRows,     \* committed run_summaries rows (a sequence of rows)
  hasView,    \* the store exposes a batch_status_summary row for the batch
  queue,      \* the live list (lpush at the head, brpop at the tail)
  delayed,    \* the delayed sorted set: a bag of [m, due]
  dead,       \* the dead-letter list
  inflight,   \* the advisory set of job ids being dispatched
  nextJid,    \* fresh job ids handed out so far (uuid4)
  graceOver,  \* the last file completion is older than the sweeper's window
  pc,         \* each consumer's position in its loop
  cur,        \* the message a consumer is dispatching
  sess,       \* each consumer's ORM session
  finBatch,   \* the batch id a consumer's _maybe_finalize_batch was called with
  ready,      \* the due entries a consumer's _drain_delayed has read
  faults,     \* store failures the environment may still cause
  hist,       \* history: counters the claims speak about
  lib         \* the state of a core-library call studied on its own

vars ==
  <<files, frun, batch, rsRows, hasView, queue, delayed, dead, inflight,
    nextJid, graceOver, pc, cur, sess, finBatch, ready, faults, hist, lib>>

storeVars == <<files, frun, batch, rsRows, hasView>>
envVars == <<graceOver, faults>>
queueVars == <<queue, delayed, dead, inflight, nextJid>>

\* ------------------------------------------------------------ records
\* No core-library call is under study.
NoLib == [call |-> "none"]

NoFile == [status |-> Absent, retry |-> 0, err |-> "none", payload |-> FALSE]

NewFile(st) == [status |-> st, retry |-> 0, err |-> "none", payload |-> FALSE]

NoJob == [status |-> Absent, total |-> 0, completed |-> 0, run_id |-> NoId]

NoMsg == [type |-> "none", doc |-> 0, batch |-> NoId, attempt |-> 0, jid |-> 0]

ProcessFileMsg(d, b, j) ==
  [type |-> "process_file", doc |-> d, batch |-> b, attempt |-> 0, jid |-> j]

NoRs == [kind |-> "none", run |-> NoId, total |-> 0, success |-> 0, failed |-> 0]

\* A fresh session: nothing loaded, nothing flushed, transaction usable.
NewSession ==
  [file |-> NoFile,        \* the in-memory FileExtraction of the dispatched doc
   loaded |-> NoFile,      \* that object's attributes as they were loaded
   flushed |-> NoFile,     \* the row image this session has flushed (holds its lock)
   job |-> NoJob,          \* the in-memory ProcessingJob
   jobFlushed |-> FALSE,   \* the job's status change has been flushed (holds its lock)
   rs |-> NoRs,            \* the run_summaries write this session has flushed
   backfilled |-> FALSE,   \* the job's total file count was set in memory
   failed |-> FALSE]       \* a statement failed: the transaction can only roll back

\* ------------------------------------------------- what a session reads
\* The row of doc d as the SQL of consumer c's session sees it: its own flushed
\* image when it has one, the committed row otherwise.
VisFile(c, d) ==
  IF cur[c].doc = d /\ sess[c].flushed.status # Absent
    THEN sess[c].flushed
    ELSE files[d]

\* The processing_jobs row as the SQL of consumer c's session sees it.
VisBatch(c) ==
  IF sess[c].jobFlushed
    THEN [batch EXCEPT !.status = sess[c].job.status,
                       !.total = sess[c].job.total,
                       !.completed = batch.completed + 1]
    ELSE batch

\* Another session holds the row lock of doc d (an uncommitted UPDATE).
FileLockedByOther(c, d) ==
  \E o \in Consumers \ {c} : cur[o].doc = d /\ sess[o].flushed.status # Absent

\* Another session holds the row lock of the batch.
BatchLockedByOther(c) ==
  \E o \in Consumers \ {c} : sess[o].jobFlushed

\* Another session holds an uncommitted write of the run summary of run r.
SummaryLockedByOther(c, r) ==
  \E o \in Consumers \ {c} : sess[o].rs.kind # "none" /\ sess[o].rs.run = r

get_batch_by_id(c, id) ==
  IF id = BatchId THEN VisBatch(c) ELSE NoJob

_resolve_run_id(job) ==
  IF job.run_id # NoId THEN job.run_id ELSE BatchId

\* The docs registered under run id r whose visible status is in S.
DocsIn(c, r, S) ==
  {d \in Docs : frun[d] = r /\ VisFile(c, d).status \in S}

CountIn(c, r, S) == Cardinality(DocsIn(c, r, S))

\* The run id the count queries end up using: the job's run id, or the batch
\* id when no file is registered under a run id that differs from it.
CountKey(c, job) ==
  IF CountIn(c, _resolve_run_id(job), FileStatuses) = 0
     /\ job.run_id # NoId /\ job.run_id # BatchId
    THEN BatchId
    ELSE _resolve_run_id(job)

get_batch_statistics(c, job) ==
  LET key == CountKey(c, job) IN
  [run_id |-> key,
   total_files |-> CountIn(c, key, FileStatuses),
   success_files |-> CountIn(c, key, {STATUS_SUCCESS}),
   failed_files |-> CountIn(c, key, {STATUS_FAILED})]

get_batch_state_counts(c, job) ==
  LET key == CountKey(c, job) IN
  [run_id |-> key,
   total_files |-> CountIn(c, key, FileStatuses),
   pending_files |-> CountIn(c, key, {STATUS_PENDING}),
   processing_files |-> CountIn(c, key, {STATUS_PROCESSING}),
   success_files |-> CountIn(c, key, {STATUS_SUCCESS}),
   failed_files |-> CountIn(c, key, {STATUS_FAILED}),
   skipped_files |-> CountIn(c, key, {STATUS_SKIPPED})]

\* The files aggregate_batch merges: those under the job's run id, or under the
\* batch id when there are none and the run id differs from it.
get_batch_files(c, job) ==
  DocsIn(c, CountKey(c, job), FileStatuses)

\* The pending doc ids under the job's run id (no fallback to the batch id).
get_pending_doc_ids(c, job) ==
  DocsIn(c, _resolve_run_id(job), {STATUS_PENDING})

\* The row of the batch_status_summary view: the batch's total file count and
\* the per-status counts of the files of its run.
get_batch_status_summary(c, id) ==
  LET job == get_batch_by_id(c, id)
      key == _resolve_run_id(job)
  IN [avail |-> hasView /\ job.status # Absent,
      total_files |-> job.total,
      files_pending |-> CountIn(c, key, {STATUS_PENDING}),
      files_processing |-> CountIn(c, key, {STATUS_PROCESSING}),
      files_success |-> CountIn(c, key, {STATUS_SUCCESS}),
      files_failed |-> CountIn(c, key, {STATUS_FAILED})]

\* Faulty variants of the guard: one that never reports a processed batch, one
\* that forgets completed_with_errors.
NeverProcessed(job) == FALSE

OnlyCompleted(job) == job.status = STATUS_COMPLETED

is_batch_already_processed(job) ==
  job.status \in {STATUS_COMPLETED, STATUS_COMPLETED_WITH_ERRORS}

\* queue_worker.py line 59 and the sweeper's WHERE clause.
\* Faulty variant: a batch with a failed file never counts as complete.
CompleteOnlyWithoutFailures(total, pending, processing, success, failed) ==
  total > 0 /\ pending = 0 /\ processing = 0 /\ failed = 0 /\ success >= total

CompletionMet(total, pending, processing, success, failed) ==
  total > 0 /\ pending = 0 /\ processing = 0 /\ (success + failed) >= total

\* Faulty variant: the failed count is ignored.
AlwaysCompleted(failed) == STATUS_COMPLETED

FinalStatus(failed) ==
  IF failed > 0 THEN STATUS_COMPLETED_WITH_ERRORS ELSE STATUS_COMPLETED

\* Faulty variant: skipped files are not counted as processed.
ProcessedWithoutSkipped(counts) == counts.success_files + counts.failed_files

\* The count of processed files of the fallback path.
FallbackProcessed(counts) ==
  counts.success_files + counts.failed_files + counts.skipped_files

\* `job.total_files or counts["total_files"]`, then the backfill test.
FallbackTotal(job, counts) ==
  LET total_files == IF job.total # 0 THEN job.total ELSE counts.total_files
  IN IF total_files = 0 /\ counts.total_files > 0
       THEN counts.total_files
       ELSE total_files

BackfillApplies(job, counts) ==
  LET total_files == IF job.total # 0 THEN job.total ELSE counts.total_files
  IN total_files = 0 /\ counts.total_files > 0

\* What _maybe_finalize_batch decides from the state its session sees.
FinalizeDecision(c, id) ==
  LET job == get_batch_by_id(c, id)
      summary == get_batch_status_summary(c, id)
      stats == get_batch_statistics(c, job)
      counts == get_batch_state_counts(c, job)
      total_files == FallbackTotal(job, counts)
      pending == counts.pending_files + counts.processing_files
  IN
  IF is_batch_already_processed(job)
    THEN [kind |-> "already", status |-> job.status]
  ELSE IF job.status = Absent
    THEN [kind |-> "notfound", status |-> Absent]
  ELSE IF summary.avail
     /\ CompletionMet(summary.total_files, summary.files_pending,
                      summary.files_processing, summary.files_success,
                      summary.files_failed)
    THEN [kind |-> "finalize", status |-> FinalStatus(summary.files_failed)]
  ELSE IF total_files = 0
    THEN [kind |-> "zero", status |-> job.status]
  ELSE IF pending > 0
    THEN IF counts.processing_files = 0 /\ get_pending_doc_ids(c, job) # {}
           THEN [kind |-> "requeue", status |-> job.status]
           ELSE [kind |-> "pending", status |-> job.status]
  ELSE IF FallbackProcessed(counts) < total_files
    THEN [kind |-> "wait", status |-> job.status]
  ELSE [kind |-> "finalize", status |-> FinalStatus(stats.failed_files)]

\* ------------------------------------------------------------ initial state
NoHist ==
  [aggCalls |-> 0,                  \* aggregate_batch calls made by the finalizer
   finalized |-> 0,                 \* status transitions the finalizer has flushed
   proc |-> [d \in Docs |-> 0],     \* processing attempts per doc
   fails |-> [d \in Docs |-> 0],    \* attempts per doc that ended FAILED
   requeues |-> 0,                  \* re-dispatches of pending docs
   sealed |-> 0,                    \* committed transitions to a completed status
   summarised |-> 0,                \* committed writes of a run summary
   calls |-> 0,                     \* direct calls of the finalizer
   dropped |-> {}]                  \* messages main dropped without a session

\* A batch of NumDocs registered files, one process_file message each, pushed
\* in doc order by the producer.
InitialQueue ==
  [i \in 1..NumDocs |-> ProcessFileMsg(NumDocs + 1 - i, BatchId, NumDocs + 1 - i)]

IdleConsumers ==
  /\ pc = [c \in Consumers |-> "idle"]
  /\ cur = [c \in Consumers |-> NoMsg]
  /\ sess = [c \in Consumers |-> NewSession]
  /\ finBatch = [c \in Consumers |-> NoId]
  /\ ready = [c \in Consumers |-> EmptyBag]

Init ==
  /\ files = [d \in Docs |-> IF d <= NumDocs THEN NewFile(STATUS_PENDING) ELSE NoFile]
  /\ frun = [d \in Docs |-> BatchId]
  /\ batch = [status |-> JOB_PROCESSING, total |-> NumDocs, completed |-> 0,
              run_id |-> NoId]
  /\ rsRows = <<>>
  /\ hasView = TRUE
  /\ queue = InitialQueue
  /\ delayed = EmptyBag
  /\ dead = <<>>
  /\ inflight = {}
  /\ nextJid = MaxDocs
  /\ graceOver = FALSE
  /\ faults = 0
  /\ IdleConsumers
  /\ hist = NoHist
  /\ lib = NoLib

\* ------------------------------------------------------------ the queue
\* redis sadd.
sadd(S, j) == S \cup {j}

\* Faulty variant: the member is left in the set.
SremSkipped(S, j) == S

\* redis srem.
srem(S, j) == S \ {j}

\* redis lpush: the new element becomes the head.
lpush(q, m) == <<m>> \o q

\* The element brpop takes, and what it leaves.
brpop(q) == q[Len(q)]
AfterPop(q) == SubSeq(q, 1, Len(q) - 1)

\* Faulty variant: the drain takes every entry, due or not.
AnyEntries == BagToSet(delayed)

DueEntries == {e \in BagToSet(delayed) : e.due}

\* Time passes: a scheduled retry reaches its due time.
RetryDue ==
  /\ UNCHANGED lib
  /\ \E e \in BagToSet(delayed) :
       /\ ~e.due
       /\ delayed' = (delayed (-) SetToBag({e})) (+) SetToBag({[e EXCEPT !.due = TRUE]})
  /\ UNCHANGED <<storeVars, queue, dead, inflight, nextJid, envVars, pc, cur,
                 sess, finBatch, ready, hist>>

\* Time passes: the last file completion becomes older than the grace window.
GraceElapses ==
  /\ UNCHANGED lib
  /\ ~graceOver
  /\ \E d \in Docs : files[d].status \in {STATUS_SUCCESS, STATUS_FAILED}
  /\ graceOver' = TRUE
  /\ UNCHANGED <<storeVars, queueVars, pc, cur, sess, finBatch, ready, faults, hist>>

\* _drain_delayed, the zrangebyscore: the due entries are read.
DrainRead(c) ==
  /\ UNCHANGED lib
  /\ pc[c] = "idle"
  /\ DueEntries # {}
  /\ ready' = [ready EXCEPT ![c] =
                 [e \in DueEntries |-> CopiesIn(e, delayed)]]
  /\ pc' = [pc EXCEPT ![c] = "drain"]
  /\ UNCHANGED <<storeVars, queueVars, envVars, cur, sess, finBatch, hist>>

\* _drain_delayed, one turn of its loop: zrem (whatever it returns) and lpush.
DrainMove(c) ==
  /\ UNCHANGED lib
  /\ pc[c] = "drain"
  /\ \E e \in BagToSet(ready[c]) :
       /\ delayed' = delayed (-) SetToBag({e})
       /\ queue' = lpush(queue, e.m)
       /\ ready' = [ready EXCEPT ![c] = ready[c] (-) SetToBag({e})]
       /\ pc' = [pc EXCEPT ![c] =
                   IF BagToSet(ready[c] (-) SetToBag({e})) = {} THEN "idle" ELSE "drain"]
  /\ UNCHANGED <<storeVars, dead, inflight, nextJid, envVars, cur, sess,
                 finBatch, hist>>

RECURSIVE SumOver(_, _)
SumOver(f, S) ==
  IF S = {} THEN 0
  ELSE LET x == CHOOSE y \in S : TRUE IN f[x] + SumOver(f, S \ {x})

\* The processing attempts made so far, over all docs.
TotalProc == SumOver(hist.proc, Docs)

\* ------------------------------------------------------- main: dequeue
\* Faulty variant: a message of unknown type goes the way of a failed aggregation.
UnknownTypeDispatched(m) ==
  \/ m.type = "process_file" /\ m.doc \in Docs
  \/ m.type \in {"aggregate_batch", "unknown"}

\* The messages for which main opens a session: a process_file message with a
\* doc id, an aggregate_batch message with a batch id.
OpensSession(m) ==
  \/ m.type = "process_file" /\ m.doc \in Docs
  \/ m.type = "aggregate_batch" /\ m.batch # NoId

\* main, lines 278-301 and 331-337, and process_file's lookup (extractor.py
\* 81-83): the message is popped.  A payload that is not a JSON object is
\* dropped untracked.  Any other message is tracked; one of unknown type, or
\* without the id its type needs, is dropped and untracked again.  Otherwise a
\* session is opened, and for process_file the file is loaded; an unknown doc
\* id raises: the session rolls back and the job id is untracked.
Dequeue(c) ==
  /\ UNCHANGED lib
  /\ pc[c] = "idle"
  /\ queue # <<>>
  /\ LET m == brpop(queue)
     IN /\ queue' = AfterPop(queue)
        /\ IF m.type = "invalid"
             THEN /\ hist' = [hist EXCEPT !.dropped = @ \cup {m}]
                  /\ UNCHANGED <<inflight, pc, cur, sess>>
           ELSE IF \/ ~OpensSession(m)
                   \/ m.type = "process_file" /\ files[m.doc].status = Absent
             THEN /\ inflight' = srem(sadd(inflight, m.jid), m.jid)
                  /\ hist' = [hist EXCEPT !.dropped = @ \cup {m}]
                  /\ UNCHANGED <<pc, cur, sess>>
           ELSE /\ inflight' = sadd(inflight, m.jid)
                /\ hist' = hist
                /\ cur' = [cur EXCEPT ![c] = m]
                /\ sess' = [sess EXCEPT ![c] =
                              IF m.type = "process_file"
                                THEN [NewSession EXCEPT !.file = files[m.doc],
                                                        !.loaded = files[m.doc]]
                                ELSE NewSession]
                /\ pc' = [pc EXCEPT ![c] =
                            IF m.type = "process_file" THEN "pf_start" ELSE "agg"]
  /\ UNCHANGED <<storeVars, delayed, dead, nextJid, envVars, finBatch, ready>>

\* ------------------------------------------------- the process_file branch
\* mark_file_processing_start and the flush of extractor.py line 86.
mark_file_processing_start(file) == [file EXCEPT !.status = STATUS_PROCESSING]

mark_file_success(file) ==
  [file EXCEPT !.status = STATUS_SUCCESS, !.payload = TRUE, !.err = "none"]

mark_file_failed(file, error_type) ==
  [file EXCEPT !.status = STATUS_FAILED, !.err = error_type]

\* Faulty variant: a failure escapes process_file before the file is marked.
FailureEscapes(file, outcome) ==
  IF outcome = "ok" THEN mark_file_success(file) ELSE file

\* The outcome of the parse, chunk and extraction steps is the environment's:
\* success, or a failure of some classified kind.  Nothing is flushed.
process_file_outcome(file, outcome) ==
  IF outcome = "ok" THEN mark_file_success(file) ELSE mark_file_failed(file, outcome)

increment_retry_count(file) == [file EXCEPT !.retry = @ + 1]

\* Faulty variant: the retry test is off by one.
RetryAllowedOffByOne(retry_count) == retry_count <= max_retry_attempts

\* Faulty variant: the last retry of the budget is never granted.
RetryTooStrict(retry_count) == retry_count + 1 < max_retry_attempts

\* The retry test of queue_worker.py line 306.
RetryAllowed(retry_count) == retry_count < max_retry_attempts

\* The copy of the message that is scheduled: its attempt incremented.
RetryCopy(m) == [m EXCEPT !.attempt = @ + 1]

\* _schedule_retry: the delay is at least a second, so the entry is not due yet.
_schedule_retry(d, m) == d (+) SetToBag({[m |-> m, due |-> FALSE]})

\* Faulty variant: the file's run id is not consulted.
MessageBatchOnly(m) == m.batch

\* `batch_id or file_row.run_id`
EffectiveBatchId(m) == IF m.batch # NoId THEN m.batch ELSE frun[m.doc]

\* The UPDATE a flush sends: the columns whose in-memory value was changed.
FlushFile(s) ==
  [s.flushed EXCEPT
     !.status = s.file.status,
     !.payload = IF s.file.payload # s.loaded.payload THEN s.file.payload ELSE @,
     !.err = IF s.file.err # s.loaded.err THEN s.file.err ELSE @,
     !.retry = IF s.file.retry # s.loaded.retry THEN s.file.retry ELSE @]

\* process_file from its flush on (extractor.py 85-177) and main, lines 302-329.
\* The processing start is flushed, which waits for the row lock; the outcome is
\* set on the session's object; main reads the resulting status from that
\* object: a FAILED file has its retry count incremented and flushed, and its
\* message is scheduled for retry or dead-lettered.  Then the finalizer is
\* called with the effective batch id.
ProcessFile(c) ==
  /\ UNCHANGED lib
  /\ pc[c] = "pf_start"
  /\ ~FileLockedByOther(c, cur[c].doc)
  /\ TotalProc < MaxAttempts
  /\ \E outcome \in {"ok"} \cup FailKinds :
       LET m == cur[c]
           started == [sess[c] EXCEPT
                         !.file = mark_file_processing_start(@),
                         !.flushed = mark_file_processing_start(files[m.doc])]
           done == [started EXCEPT !.file = process_file_outcome(@, outcome)]
           counted == [done EXCEPT !.file = increment_retry_count(@)]
       IN IF done.file.status = STATUS_FAILED
            THEN /\ sess' = [sess EXCEPT ![c] = [counted EXCEPT !.flushed = FlushFile(counted)]]
                 /\ hist' = [hist EXCEPT !.proc[m.doc] = @ + 1, !.fails[m.doc] = @ + 1]
                 /\ IF RetryAllowed(counted.file.retry)
                      THEN /\ delayed' = _schedule_retry(delayed, RetryCopy(m))
                           /\ dead' = dead
                      ELSE /\ dead' = Append(dead, m)
                           /\ delayed' = delayed
            ELSE /\ sess' = [sess EXCEPT ![c] = done]
                 /\ hist' = [hist EXCEPT !.proc[m.doc] = @ + 1]
                 /\ UNCHANGED <<delayed, dead>>
  /\ finBatch' = [finBatch EXCEPT ![c] = EffectiveBatchId(cur[c])]
  /\ pc' = [pc EXCEPT ![c] = "fin_read"]
  /\ UNCHANGED <<storeVars, queue, inflight, nextJid, envVars, cur, ready>>

\* ------------------------------------------------- _maybe_finalize_batch
\* The fresh process_file messages of the self-healing re-dispatch, pushed in
\* doc order, each with a new job id.
RECURSIVE RequeuePending(_, _, _, _)
RequeuePending(q, docs, id, jid) ==
  IF docs = {} THEN q
  ELSE LET d == CHOOSE x \in docs : \A y \in docs : x <= y
       IN RequeuePending(lpush(q, ProcessFileMsg(d, id, jid + 1)),
                         docs \ {d}, id, jid + 1)

\* _maybe_finalize_batch up to its decision (lines 26-160): the reads, and for
\* a complete batch the status set on the job object.  A batch with pending
\* files and none processing has every pending doc id pushed on the live queue.
FinalizeRead(c) ==
  /\ UNCHANGED lib
  /\ pc[c] = "fin_read"
  /\ LET id == finBatch[c]
         job == get_batch_by_id(c, id)
         dec == FinalizeDecision(c, id)
         counts == get_batch_state_counts(c, job)
         fill == dec.kind \in {"requeue", "pending", "wait"}
                   /\ BackfillApplies(job, counts)
         pending == get_pending_doc_ids(c, job)
     IN /\ sess' = [sess EXCEPT
             ![c].job = [job EXCEPT
                !.status = IF dec.kind = "finalize" THEN dec.status ELSE @,
                !.total = IF fill THEN counts.total_files ELSE @],
             ![c].backfilled = fill]
        /\ IF dec.kind = "requeue"
             THEN /\ hist.requeues < MaxRequeue
                  /\ queue' = RequeuePending(queue, pending, id, nextJid)
                  /\ nextJid' = nextJid + Cardinality(pending)
                  /\ hist' = [hist EXCEPT !.requeues = @ + 1]
             ELSE UNCHANGED <<queue, nextJid, hist>>
        /\ pc' = [pc EXCEPT ![c] =
                    IF dec.kind = "finalize" THEN "fin_flush" ELSE "commit"]
  /\ UNCHANGED <<storeVars, delayed, dead, inflight, envVars, cur, finBatch, ready>>

\* The run_summaries rows of run r the session sees.
VisibleSummaries(c, r) ==
  {i \in 1..Len(rsRows) : rsRows[i].run = r}

\* Faulty variant: the row is inserted without looking for an existing one.
InsertAlways(c, stats) ==
  [kind |-> "insert",
   run |-> stats.run_id,
   total |-> stats.total_files,
   success |-> stats.success_files,
   failed |-> stats.failed_files]

\* create_or_update_run_summary with aggregate_batch's counts: an INSERT when
\* the session sees no row of the run id, an UPDATE of the row otherwise.
create_or_update_run_summary(c, stats) ==
  [kind |-> IF VisibleSummaries(c, stats.run_id) = {} THEN "insert" ELSE "update",
   run |-> stats.run_id,
   total |-> stats.total_files,
   success |-> stats.success_files,
   failed |-> stats.failed_files]

\* _maybe_finalize_batch from its flush on (lines 66-87 and 158-178).  The job's
\* status and completion time are flushed, which waits for another session's
\* uncommitted write of that row.  Then aggregate_batch is called and its
\* failure swallowed: it succeeds and flushes its run summary, or fails before
\* writing anything, or fails in a statement of the store, after which the
\* transaction can only be rolled back.
FinalizeWrite(c) ==
  /\ UNCHANGED lib
  /\ pc[c] = "fin_flush"
  /\ ~BatchLockedByOther(c)
  /\ LET flushed == [sess[c] EXCEPT !.jobFlushed = TRUE]
         stats == get_batch_statistics(c, sess[c].job)
     IN \E outcome \in {"ok", "error", "store_error"} :
          /\ outcome = "ok" =>
               /\ ~SummaryLockedByOther(c, stats.run_id)
               /\ sess' = [sess EXCEPT ![c] =
                    [flushed EXCEPT !.rs = create_or_update_run_summary(c, stats)]]
               /\ hist' = [hist EXCEPT !.finalized = @ + 1, !.aggCalls = @ + 1]
          /\ outcome = "error" =>
               /\ sess' = [sess EXCEPT ![c] = flushed]
               /\ hist' = [hist EXCEPT !.finalized = @ + 1, !.aggCalls = @ + 1]
          /\ outcome = "store_error" =>
               /\ faults > 0
               /\ sess' = [sess EXCEPT ![c] = [flushed EXCEPT !.failed = TRUE]]
               /\ hist' = [hist EXCEPT !.finalized = @ + 1, !.aggCalls = @ + 1]
          /\ faults' = IF outcome = "store_error" THEN faults - 1 ELSE faults
  /\ pc' = [pc EXCEPT ![c] = "commit"]
  /\ UNCHANGED <<storeVars, queueVars, graceOver, cur, finBatch, ready>>

\* ------------------------------------------------------------ commit
\* Faulty variant: an exception that escapes the dispatch ends the loop.
StopOnError(failed) == IF failed THEN "stopped" ELSE "idle"

\* Where main's loop goes after a dispatch: `except Exception` logs, sleeps a
\* second and lets `while True` go on, as a dispatch without error does.
NextLoopStep(failed) == "idle"

\* The committed row of the dispatched doc after the session's commit.
CommitFile(s, row) ==
  IF s.file.status = Absent THEN row ELSE FlushFile(s)

\* The committed job row after the session's commit.
CommitBatch(s, row) ==
  [row EXCEPT
     !.status = IF s.jobFlushed THEN s.job.status ELSE @,
     !.completed = IF s.jobFlushed THEN @ + 1 ELSE @,
     !.total = IF s.backfilled THEN s.job.total ELSE @]

\* The committed run_summaries rows after the session's commit.
CommitSummaries(s, rows) ==
  LET row == [run |-> s.rs.run, total |-> s.rs.total,
              success |-> s.rs.success, failed |-> s.rs.failed]
  IN IF s.rs.kind = "insert" THEN Append(rows, row)
     ELSE IF s.rs.kind = "update"
       THEN [i \in 1..Len(rows) |-> IF rows[i].run = s.rs.run THEN row ELSE rows[i]]
     ELSE rows

\* get_session's exit (connection.py 49-59): commit, which first flushes what
\* is still only in memory; a transaction in which a statement failed is
\* rolled back instead.  Then main's finally: the job id is untracked.
Commit(c) ==
  /\ UNCHANGED lib
  /\ pc[c] = "commit"
  /\ LET s == sess[c]
         d == cur[c].doc
     IN IF s.failed
          THEN UNCHANGED <<files, batch, rsRows, graceOver, hist>>
          ELSE /\ s.backfilled => ~BatchLockedByOther(c)
               /\ files' = IF d \in Docs
                             THEN [files EXCEPT ![d] = CommitFile(s, files[d])]
                             ELSE files
               /\ batch' = CommitBatch(s, batch)
               /\ rsRows' = CommitSummaries(s, rsRows)
               /\ graceOver' = IF d \in Docs THEN FALSE ELSE graceOver
               /\ hist' = [hist EXCEPT
                            !.sealed = IF s.jobFlushed THEN @ + 1 ELSE @,
                            !.summarised = IF s.rs.kind # "none" THEN @ + 1 ELSE @]
  /\ inflight' = IF cur[c].type = "none" THEN inflight ELSE srem(inflight, cur[c].jid)
  /\ pc' = [pc EXCEPT ![c] = NextLoopStep(sess[c].failed)]
  /\ cur' = [cur EXCEPT ![c] = NoMsg]
  /\ sess' = [sess EXCEPT ![c] = NewSession]
  /\ finBatch' = [finBatch EXCEPT ![c] = NoId]
  /\ UNCHANGED <<frun, hasView, queue, delayed, dead, nextJid, ready, faults>>

\* ------------------------------------------------------------ the sweeper
\* Faulty variant: the sweeper's query never matches.
NeverStuck(c) == FALSE

\* The query of _check_stuck_batches over the committed rows.
StuckBatch(c) ==
  LET v == get_batch_status_summary(c, BatchId)
  IN /\ batch.status = JOB_PROCESSING
     /\ v.avail
     /\ CompletionMet(v.total_files, v.files_pending, v.files_processing,
                      v.files_success, v.files_failed)
     /\ graceOver

\* main's periodic check finds the batch stuck and calls the finalizer on it
\* in a session of its own, committed by _check_stuck_batches.
StartSweep(c) ==
  /\ UNCHANGED lib
  /\ pc[c] = "idle"
  /\ StuckBatch(c)
  /\ pc' = [pc EXCEPT ![c] = "fin_read"]
  /\ finBatch' = [finBatch EXCEPT ![c] = BatchId]
  /\ UNCHANGED <<storeVars, queueVars, envVars, cur, sess, ready, hist>>

Next ==
  \/ RetryDue
  \/ GraceElapses
  \/ \E c \in Consumers :
       \/ DrainRead(c)
       \/ DrainMove(c)
       \/ Dequeue(c)
       \/ ProcessFile(c)
       \/ FinalizeRead(c)
       \/ FinalizeWrite(c)
       \/ Commit(c)
       \/ StartSweep(c)

Spec == Init /\ [][Next]_vars

\* ------------------------------------------- the finalizer called directly
\* One call of _maybe_finalize_batch on the batch in a session of its own, as
\* _check_stuck_batches makes it for each batch of its result (lines 232-242).
CallFinalize(c) ==
  /\ UNCHANGED lib
  /\ pc[c] = "idle"
  /\ hist.calls < MaxCalls
  /\ pc' = [pc EXCEPT ![c] = "fin_read"]
  /\ finBatch' = [finBatch EXCEPT ![c] = BatchId]
  /\ hist' = [hist EXCEPT !.calls = @ + 1]
  /\ UNCHANGED <<storeVars, queueVars, envVars, cur, sess, ready>>

\* A stored file row of each status: a SUCCESS row holds its payload, a FAILED
\* row its error.
FileOf(st) ==
  IF st = Absent THEN NoFile
  ELSE IF st = STATUS_SUCCESS THEN mark_file_success(NewFile(st))
  ELSE IF st = STATUS_FAILED
    THEN increment_retry_count(mark_file_failed(NewFile(st), "RETRYABLE"))
  ELSE NewFile(st)

Rank(st) ==
  CASE st = STATUS_PENDING -> 1
    [] st = STATUS_PROCESSING -> 2
    [] st = STATUS_SUCCESS -> 3
    [] st = STATUS_FAILED -> 4
    [] st = STATUS_SKIPPED -> 5
    [] OTHER -> 6

\* The file statuses of a batch of up to MaxDocs registered files, one
\* representative per multiset of statuses.
StatusVectors ==
  {v \in [Docs -> FileStatuses \cup {Absent}] :
     \A d \in Docs \ {MaxDocs} : Rank(v[d]) <= Rank(v[d + 1])}

\* Any stored batch (or none) with any files, no message anywhere.
InitFinalize ==
  /\ \E v \in StatusVectors : files = [d \in Docs |-> FileOf(v[d])]
  /\ frun = [d \in Docs |-> BatchId]
  /\ \E st \in JobStatuses \cup {Absent}, t \in 0..MaxDocs :
       /\ st = Absent => t = 0
       /\ batch = [status |-> st, total |-> t, completed |-> 0, run_id |-> NoId]
  /\ rsRows = <<>>
  /\ hasView \in BOOLEAN
  /\ queue = <<>>
  /\ delayed = EmptyBag
  /\ dead = <<>>
  /\ inflight = {}
  /\ nextJid = MaxDocs
  /\ graceOver = TRUE
  /\ faults = MaxFaults
  /\ IdleConsumers
  /\ hist = NoHist
  /\ lib = NoLib

FinalizeNext ==
  \/ CallFinalize(1)
  \/ FinalizeRead(1)
  \/ FinalizeWrite(1)
  \/ Commit(1)

SpecFinalize == InitFinalize /\ [][FinalizeNext]_vars

\* ================================================================ claims
Terminal == {STATUS_COMPLETED, STATUS_COMPLETED_WITH_ERRORS}

NonTerminal == {JOB_PENDING, JOB_QUEUED, JOB_EXTRACTING, JOB_PROCESSING}

\* The committed files of the batch whose status is in S.
Committed(S) == Cardinality({d \in Docs : files[d].status \in S})

\* A consumer that has run process_file in its current dispatch.
Processed(c) == pc[c] \in {"fin_read", "fin_flush", "commit"} /\ cur[c].doc \in Docs

\* C1: under any interleaving of consumers and sweepers calling the finalizer
\* on the batch, the transition to completed / completed_with_errors is made at
\* most once and the aggregation is invoked at most once.
C1_FinalizedOnce == hist.sealed <= 1 /\ hist.aggCalls <= 1

\* The denominator the finalizer ends up using: the batch's total file count,
\* or the number of its files when that count is zero.
C2_Total == IF batch.total # 0 THEN batch.total ELSE Committed(FileStatuses)

C2_Complete(processed) ==
  /\ C2_Total > 0
  /\ Committed({STATUS_PENDING}) = 0
  /\ Committed({STATUS_PROCESSING}) = 0
  /\ processed >= C2_Total

\* C2 as stated: a call on a non-terminal batch makes the transition if and
\* only if total > 0, pending = 0, processing = 0 and success + failed >= total.
C2_AsStated ==
  (pc[1] = "commit" /\ batch.status \in NonTerminal)
    => (sess[1].jobFlushed
          <=> C2_Complete(Committed({STATUS_SUCCESS, STATUS_FAILED})))

\* C2, amended: a call on a non-terminal batch makes the transition if and only
\* if total > 0, pending = 0, processing = 0 and success + failed + skipped >=
\* total, where total is the batch's total file count or, when that is zero,
\* the number of its files; in every other state the status is left unchanged.
C2_Predicate ==
  (pc[1] = "commit" /\ batch.status \in NonTerminal)
    => (sess[1].jobFlushed
          <=> C2_Complete(Committed({STATUS_SUCCESS, STATUS_FAILED, STATUS_SKIPPED})))

C2_Witness ==
  /\ pc[1] = "commit"
  /\ batch.status \in NonTerminal
  /\ sess[1].jobFlushed
  /\ Committed({STATUS_SKIPPED}) > 0

\* C3: when the finalizer finalizes, no file is pending or processing and the
\* new status is completed_with_errors if a file is FAILED, completed otherwise.
C3_FinalStatus ==
  pc[1] = "fin_flush"
    => /\ Committed({STATUS_PENDING, STATUS_PROCESSING}) = 0
       /\ sess[1].job.status =
            IF Committed({STATUS_FAILED}) > 0
              THEN STATUS_COMPLETED_WITH_ERRORS
              ELSE STATUS_COMPLETED

C3_Witness ==
  /\ pc[1] = "fin_flush"
  /\ batch.total = 5
  /\ Committed({STATUS_SUCCESS}) = 3
  /\ Committed({STATUS_FAILED}) = 2
  /\ Committed(FileStatuses) = 5
  /\ sess[1].job.status = STATUS_COMPLETED_WITH_ERRORS

\* C4: a finalizer call that finds the batch completed or completed_with_errors
\* is a no-op: it flushes no status, invokes no aggregation, enqueues nothing,
\* and the commit that ends it leaves the batch and the run summaries as they were.
C4_NoOpOnTerminal ==
  [][\A c \in Consumers :
       /\ (/\ pc[c] = "fin_read"
           /\ pc'[c] # "fin_read"
           /\ get_batch_by_id(c, finBatch[c]).status \in Terminal)
            => /\ pc'[c] = "commit"
               /\ ~sess'[c].jobFlushed
               /\ ~sess'[c].backfilled
               /\ sess'[c].rs = NoRs
               /\ hist'.aggCalls = hist.aggCalls
               /\ hist'.finalized = hist.finalized
               /\ UNCHANGED <<storeVars, queue, delayed, dead, nextJid>>
       /\ (/\ pc[c] = "commit"
           /\ pc'[c] = "idle"
           /\ sess[c].job.status \in Terminal
           /\ ~sess[c].jobFlushed)
            => UNCHANGED <<batch, rsRows, queue, delayed, dead>>]_vars

C4_Witness ==
  \E c \in Consumers :
    /\ pc[c] = "commit"
    /\ finBatch[c] = BatchId
    /\ batch.status \in Terminal
    /\ sess[c].job.status \in Terminal
    /\ ~sess[c].jobFlushed

\* The batch was not completed when the first of the calls was made, and its
\* files have all resolved to SUCCESS or FAILED.
C5_JustResolved ==
  /\ batch.status # Absent
  /\ batch.status \notin Terminal \/ hist.sealed >= 1
  /\ C2_Complete(Committed({STATUS_SUCCESS, STATUS_FAILED}))

C6_StatusKept ==
  (pc[1] = "idle" /\ hist.finalized >= 1 /\ batch.status # JOB_FAILED)
    => batch.status \in Terminal

C8_SuccessIsFinal ==
  \A c \in Consumers :
    Processed(c) => files[cur[c].doc].status # STATUS_SUCCESS

DeadDocs == {dead[i].doc : i \in 1..Len(dead)}
QueuedDocs == {queue[i].doc : i \in 1..Len(queue)}
DelayedDocs == {e.m.doc : e \in BagToSet(delayed)}

\* C10: a file that has failed on every attempt is processed at most
\* max_retry_attempts times, its retry count never exceeds max_retry_attempts,
\* and once its message is dead-lettered no copy is in the live queue or the
\* delayed set.
C10_ExactlyMax ==
  \A d \in Docs :
    hist.fails[d] = hist.proc[d]
      => /\ hist.proc[d] <= max_retry_attempts
         /\ files[d].retry <= max_retry_attempts
         /\ d \in DeadDocs => d \notin QueuedDocs \cup DelayedDocs

\* A process_file message for doc d is outstanding: in the live queue, in the
\* delayed set, read by a drain, or being dispatched.
Outstanding(d) ==
  \/ d \in QueuedDocs \cup DelayedDocs
  \/ \E c \in Consumers : cur[c].doc = d
  \/ \E c \in Consumers : \E e \in BagToSet(ready[c]) : e.m.doc = d

\* The retries scheduled for doc d so far: its failed dispatches that were not
\* dead-lettered.
ScheduledRetries(d) ==
  hist.fails[d] - Cardinality({i \in 1..Len(dead) : dead[i].doc = d})

\* C11: a file processed twice, of which one attempt failed, with no message
\* left for it, is SUCCESS with its payload stored; exactly one retry was
\* scheduled for it and it is not in the dead-letter list.
C11_FailThenSucceed ==
  \A d \in Docs :
    (hist.proc[d] = 2 /\ hist.fails[d] = 1 /\ ~Outstanding(d))
      => /\ files[d].status = STATUS_SUCCESS
         /\ files[d].payload
         /\ ScheduledRetries(d) = 1
         /\ d \notin DeadDocs

C11_Witness ==
  \E d \in Docs :
    /\ hist.proc[d] = 2
    /\ hist.fails[d] = 1
    /\ ~Outstanding(d)
    /\ files[d].status = STATUS_SUCCESS
    /\ files[d].retry = 1
    /\ dead = <<>>
    /\ hist.requeues = 0

\* ------------------------------------------------- the loop keeps running
\* Every consumer's loop keeps taking its next step and time keeps passing.
LoopFairness ==
  /\ WF_vars(RetryDue)
  /\ WF_vars(GraceElapses)
  /\ \A c \in Consumers :
       /\ WF_vars(DrainRead(c))
       /\ WF_vars(DrainMove(c))
       /\ WF_vars(Dequeue(c))
       /\ WF_vars(ProcessFile(c))
       /\ WF_vars(FinalizeRead(c))
       /\ WF_vars(FinalizeWrite(c))
       /\ WF_vars(Commit(c))
       /\ WF_vars(StartSweep(c))

SpecLive == Init /\ [][Next]_vars /\ LoopFairness

\* A consumer has run into a bound of the model: its next step is cut off.
BoundReached ==
  \E c \in Consumers :
    \/ pc[c] = "pf_start" /\ TotalProc >= MaxAttempts
    \/ /\ pc[c] = "fin_read"
       /\ FinalizeDecision(c, finBatch[c]).kind = "requeue"
       /\ hist.requeues >= MaxRequeue

\* Every file of the batch is committed as SUCCESS or FAILED.
AllResolved ==
  /\ batch.total > 0
  /\ Committed({STATUS_SUCCESS, STATUS_FAILED}) >= batch.total
  /\ Committed({STATUS_PENDING, STATUS_PROCESSING, STATUS_SKIPPED}) = 0

OtherRun == "r1"

\* The batch of Init with its files registered under the batch id or under a
\* run id of their own, the batch's run id absent, equal to the batch id or
\* that other run id, and each message carrying the batch id or none.
InitDispatch ==
  /\ files = [d \in Docs |-> IF d <= NumDocs THEN NewFile(STATUS_PENDING) ELSE NoFile]
  /\ \E r \in {BatchId, OtherRun} : frun = [d \in Docs |-> r]
  /\ \E j \in {NoId, BatchId, OtherRun} :
       batch = [status |-> JOB_PROCESSING, total |-> NumDocs, completed |-> 0,
                run_id |-> j]
  /\ rsRows = <<>>
  /\ hasView = TRUE
  /\ \E b \in [1..NumDocs -> {BatchId, NoId}] :
       queue = [i \in 1..NumDocs |->
                  ProcessFileMsg(NumDocs + 1 - i, b[NumDocs + 1 - i], NumDocs + 1 - i)]
  /\ delayed = EmptyBag
  /\ dead = <<>>
  /\ inflight = {}
  /\ nextJid = MaxDocs
  /\ graceOver = FALSE
  /\ faults = 0
  /\ IdleConsumers
  /\ hist = NoHist
  /\ lib = NoLib

DispatchNext ==
  \/ RetryDue
  \/ GraceElapses
  \/ DrainRead(1)
  \/ DrainMove(1)
  \/ Dequeue(1)
  \/ ProcessFile(1)
  \/ FinalizeRead(1)
  \/ FinalizeWrite(1)
  \/ Commit(1)
  \/ StartSweep(1)

SpecDispatch == InitDispatch /\ [][DispatchNext]_vars

\* C13: a dispatch that has run process_file on an existing file, whatever the
\* file's outcome, calls the finalizer next, with the message's batch id if it
\* has one and the file's run id otherwise.
C13_FinalizerCalled ==
  [][\A c \in Consumers :
       (pc[c] = "pf_start" /\ pc'[c] # "pf_start")
         => /\ pc'[c] = "fin_read"
            /\ sess'[c].file.status \in {STATUS_SUCCESS, STATUS_FAILED}
            /\ finBatch'[c] # NoId
            /\ finBatch'[c] = IF cur[c].batch # NoId
                                THEN cur[c].batch
                                ELSE frun[cur[c].doc]]_vars

C13_Witness ==
  /\ pc[1] = "fin_read"
  /\ cur[1].doc \in Docs
  /\ cur[1].batch = NoId
  /\ sess[1].file.status = STATUS_FAILED
  /\ finBatch[1] = OtherRun
  /\ frun[cur[1].doc] = OtherRun

\* ------------------------------------------------ core library: ensureFile
NumCallers == 2
MaxEnsure == 2

Callers == 1..NumCallers

sysVars ==
  <<files, frun, batch, rsRows, hasView, queue, delayed, dead, inflight,
    nextJid, graceOver, pc, cur, sess, finBatch, ready, faults, hist>>

\* The worker at rest: an empty store and queue, every consumer idle.
SystemAtRest ==
  /\ files = [d \in Docs |-> NoFile]
  /\ frun = [d \in Docs |-> BatchId]
  /\ batch = NoJob
  /\ rsRows = <<>>
  /\ hasView = FALSE
  /\ queue = <<>>
  /\ delayed = EmptyBag
  /\ dead = <<>>
  /\ inflight = {}
  /\ nextJid = 0
  /\ graceOver = FALSE
  /\ faults = 0
  /\ IdleConsumers
  /\ hist = NoHist

\* One doc id, no row for it yet; every caller has a session of its own
\* (autoflush off), has made no call and has seen no error.
InitEnsure ==
  /\ SystemAtRest
  /\ lib = [call |-> "ensure_idempotent_file",
            table |-> {},                            \* committed rows with the doc id
            pend |-> [k \in Callers |-> <<>>],       \* session.new: added, not flushed
            ins |-> [k \in Callers |-> {}],          \* flushed, not committed
            res |-> [k \in Callers |-> <<>>],        \* what each call returned
            err |-> [k \in Callers |-> FALSE],       \* an IntegrityError reached the caller
            made |-> 0]                              \* FileExtraction objects constructed

\* `session.query(FileExtraction).filter(doc_id == doc_id).one_or_none()`: the
\* SQL sees committed rows and the rows this session has flushed, never an
\* object that was only added.
EnsureQuery(k) == lib.table \cup lib.ins[k]

\* ensure_idempotent_file: the state after the call. `session.add` sends
\* nothing to the store, so the IntegrityError branch cannot be entered.
ensure_idempotent_file(k) ==
  LET existing == EnsureQuery(k)
  IN IF existing # {}
       THEN [lib EXCEPT !.res[k] = Append(@, [rec |-> CHOOSE r \in existing : TRUE,
                                               created |-> FALSE])]
       ELSE [lib EXCEPT !.made = @ + 1,
                        !.pend[k] = Append(@, lib.made + 1),
                        !.res[k] = Append(@, [rec |-> lib.made + 1,
                                              created |-> TRUE])]

EnsureFile(k) ==
  /\ lib.call = "ensure_idempotent_file"
  /\ ~lib.err[k]
  /\ Len(lib.res[k]) < MaxEnsure
  /\ lib' = ensure_idempotent_file(k)
  /\ UNCHANGED sysVars

\* Another session holds an uncommitted row with the doc id: an INSERT of the
\* same doc id waits on the unique index until that transaction ends.
InsertBlocked(k) == \E o \in Callers \ {k} : lib.ins[o] # {}

\* The INSERTs of a flush, in the order the objects were added: the unique
\* constraint on doc_id lets the first one in only when no row is visible, and
\* never a second one.
FlushAccepted(k) == Len(lib.pend[k]) = 1 /\ EnsureQuery(k) = {}

\* session.flush() by the caller. A refused INSERT raises IntegrityError out
\* of the flush; get_session rolls the transaction back and re-raises.
SessionFlush(k) ==
  /\ lib.call = "ensure_idempotent_file"
  /\ lib.pend[k] # <<>>
  /\ ~InsertBlocked(k)
  /\ lib' = IF FlushAccepted(k)
              THEN [lib EXCEPT !.ins[k] = {lib.pend[k][1]}, !.pend[k] = <<>>]
              ELSE [lib EXCEPT !.ins[k] = {}, !.pend[k] = <<>>, !.err[k] = TRUE]
  /\ UNCHANGED sysVars

\* get_session on exit: session.commit() flushes what is pending and commits.
SessionCommit(k) ==
  /\ lib.call = "ensure_idempotent_file"
  /\ lib.pend[k] # <<>> \/ lib.ins[k] # {}
  /\ lib.pend[k] # <<>> => ~InsertBlocked(k)
  /\ lib' = IF lib.pend[k] = <<>>
              THEN [lib EXCEPT !.table = @ \cup lib.ins[k], !.ins[k] = {}]
              ELSE IF FlushAccepted(k)
                THEN [lib EXCEPT !.table = @ \cup {lib.pend[k][1]}, !.pend[k] = <<>>]
                ELSE [lib EXCEPT !.ins[k] = {}, !.pend[k] = <<>>, !.err[k] = TRUE]
  /\ UNCHANGED sysVars

EnsureNext ==
  \/ \E k \in Callers : EnsureFile(k)
  \/ \E k \in Callers : SessionFlush(k)
  \/ \E k \in Callers : SessionCommit(k)

SpecEnsure == InitEnsure /\ [][EnsureNext]_vars

\* C14: a caller's second ensureFile call for the doc id returns created=false
\* and the record of its first call, so no second record is made.
C14_SecondCallFetches ==
  \A k \in Callers :
    Len(lib.res[k]) >= 2
      => /\ ~lib.res[k][2].created
         /\ lib.res[k][2].rec = lib.res[k][1].rec

\* C15: after concurrent ensureFile calls for a doc id that did not exist, no
\* caller has seen an error, at most one caller was told created=true and
\* at most one row exists.
C15_LoserFetches ==
  /\ \A k \in Callers : ~lib.err[k]
  /\ Cardinality({k \in Callers :
                    lib.res[k] # <<>> /\ lib.res[k][1].created}) <= 1
  /\ Cardinality(lib.table) <= 1

\* ------------------------------------------- core library: shouldReprocess
MaxClock == 3
MaxStale == 2
MaxRetryCount == 3

\* Python's None for a nullable integer or timestamp column.
None == -1

\* models.py ERROR_* tags; "none" is a NULL error_type.
ERROR_PERMANENT == "PERMANENT"

ErrorTags ==
  {"UNKNOWN", "RETRYABLE", ERROR_PERMANENT, "TIMEOUT", "RATE_LIMIT",
   "PARSE_ERROR", "LLM_ERROR"}

\* Times are whole seconds on one clock.
InitReprocess ==
  /\ SystemAtRest
  /\ \E st \in FileStatuses, et \in ErrorTags \cup {"none"},
        rc \in {None} \cup 0..MaxRetryCount,
        started \in {None} \cup 0..MaxClock,
        mx \in 0..MaxRetryCount, stale \in 0..MaxStale, now \in 0..MaxClock :
       lib = [call |-> "should_reprocess_file",
              file |-> [status |-> st, error_type |-> et, retry_count |-> rc,
                        processing_started_at |-> started],
              max_retry_attempts |-> mx,
              stale_seconds |-> stale,
              now |-> now,
              done |-> FALSE,
              out |-> FALSE]

\* Faulty variant: a processing file counts as stale from the very second
\* its age reaches stale_seconds.
StaleAtThreshold(file, mx, stale, now) ==
  IF file.status = STATUS_SUCCESS THEN FALSE
  ELSE IF file.status = STATUS_FAILED /\ file.error_type = ERROR_PERMANENT THEN FALSE
  ELSE IF /\ file.status = STATUS_FAILED
          /\ (IF file.retry_count = None THEN 0 ELSE file.retry_count) < mx
    THEN TRUE
  ELSE IF file.status \in {STATUS_PENDING, STATUS_PROCESSING}
    THEN IF file.processing_started_at = None
           THEN TRUE
           ELSE now - file.processing_started_at >= stale
  ELSE FALSE

\* should_reprocess_file, branch by branch; `retry_count or 0` reads None as 0.
should_reprocess_file(file, mx, stale, now) ==
  IF file.status = STATUS_SUCCESS THEN FALSE
  ELSE IF file.status = STATUS_FAILED /\ file.error_type = ERROR_PERMANENT THEN FALSE
  ELSE IF /\ file.status = STATUS_FAILED
          /\ (IF file.retry_count = None THEN 0 ELSE file.retry_count) < mx
    THEN TRUE
  ELSE IF file.status \in {STATUS_PENDING, STATUS_PROCESSING}
    THEN IF file.processing_started_at = None
           THEN TRUE
           ELSE now - file.processing_started_at > stale
  ELSE FALSE

ShouldReprocess ==
  /\ lib.call = "should_reprocess_file"
  /\ ~lib.done
  /\ lib' = [lib EXCEPT !.done = TRUE,
                        !.out = should_reprocess_file(lib.file, lib.max_retry_attempts,
                                                      lib.stale_seconds, lib.now)]
  /\ UNCHANGED sysVars

SpecReprocess == InitReprocess /\ [][ShouldReprocess]_vars

\* C16: shouldReprocess answers no for SUCCESS, no for FAILED of kind
\* PERMANENT, for any other FAILED yes exactly when the retry count is below
\* the maximum, for pending or processing yes when no start time is recorded
\* and otherwise yes exactly when more than staleSeconds have elapsed since
\* the start, and no for every other status.
C16_ReprocessGate ==
  (lib.call = "should_reprocess_file" /\ lib.done) =>
    LET f == lib.file
        count == IF f.retry_count = None THEN 0 ELSE f.retry_count
    IN /\ f.status = STATUS_SUCCESS => ~lib.out
       /\ (f.status = STATUS_FAILED /\ f.error_type = ERROR_PERMANENT) => ~lib.out
       /\ (f.status = STATUS_FAILED /\ f.error_type # ERROR_PERMANENT)
            => (lib.out <=> count < lib.max_retry_attempts)
       /\ (f.status \in {STATUS_PENDING, STATUS_PROCESSING}
             /\ f.processing_started_at = None) => lib.out
       /\ (f.status \in {STATUS_PENDING, STATUS_PROCESSING}
             /\ f.processing_started_at # None)
            => (lib.out <=> lib.now - f.processing_started_at > lib.stale_seconds)
       /\ f.status = STATUS_SKIPPED => ~lib.out

C16_Witness ==
  /\ lib.call = "should_reprocess_file"
  /\ lib.done
  /\ lib.file.status = STATUS_PROCESSING
  /\ lib.file.processing_started_at # None
  /\ lib.stale_seconds > 0
  /\ lib.now - lib.file.processing_started_at = lib.stale_seconds
  /\ ~lib.out

\* -------------------------------------------------- core library: classify
MaxWords == 2

\* The substrings classify_error looks for, and any other text.
Phrases ==
  {"rate limit", "429", "timeout", "timed out", "parse", "decode", "openai",
   "llm", "permission", "not found", "connection", "network"}

\* A message is a run of fragments, each one a phrase or other text, written
\* in lower case or not.
Fragments == [text : Phrases \cup {"other"}, upper : BOOLEAN]

RECURSIVE MessagesUpTo(_)
MessagesUpTo(n) ==
  IF n = 0 THEN {<<>>}
  ELSE LET shorter == MessagesUpTo(n - 1)
       IN shorter \cup {Append(m, f) : m \in {x \in shorter : Len(x) = n - 1},
                                       f \in Fragments}

\* An error: `typed` is the error_type attribute of a WorkerError subclass of
\* errors.py, "none" for an exception that has no such attribute.
InitClassify ==
  /\ SystemAtRest
  /\ \E t \in ErrorTags \cup {"none"}, m \in MessagesUpTo(MaxWords) :
       lib = [call |-> "classify_error",
              error |-> [typed |-> t, message |-> m],
              out |-> "none"]

\* str.lower()
lower(m) == [i \in 1..Len(m) |-> [m[i] EXCEPT !.upper = FALSE]]

\* `phrase in message`: a case-sensitive substring test.
Contains(m, phrase) == \E i \in 1..Len(m) : m[i].text = phrase /\ ~m[i].upper

\* Faulty variant: the provider rule is tried before the parse rule.
ProviderBeforeParse(error) ==
  IF error.typed # "none" THEN error.typed
  ELSE LET message == lower(error.message)
       IN IF Contains(message, "rate limit") \/ Contains(message, "429")
            THEN "RATE_LIMIT"
          ELSE IF Contains(message, "timeout") \/ Contains(message, "timed out")
            THEN "TIMEOUT"
          ELSE IF Contains(message, "openai") \/ Contains(message, "llm")
            THEN "LLM_ERROR"
          ELSE IF Contains(message, "parse") \/ Contains(message, "decode")
            THEN "PARSE_ERROR"
          ELSE IF Contains(message, "permission") \/ Contains(message, "not found")
            THEN "PERMANENT"
          ELSE IF Contains(message, "connection") \/ Contains(message, "network")
            THEN "RETRYABLE"
          ELSE "UNKNOWN"

classify_error(error) ==
  IF error.typed # "none" THEN error.typed
  ELSE LET message == lower(error.message)
       IN IF Contains(message, "rate limit") \/ Contains(message, "429")
            THEN "RATE_LIMIT"
          ELSE IF Contains(message, "timeout") \/ Contains(message, "timed out")
            THEN "TIMEOUT"
          ELSE IF Contains(message, "parse") \/ Contains(message, "decode")
            THEN "PARSE_ERROR"
          ELSE IF Contains(message, "openai") \/ Contains(message, "llm")
            THEN "LLM_ERROR"
          ELSE IF Contains(message, "permission") \/ Contains(message, "not found")
            THEN "PERMANENT"
          ELSE IF Contains(message, "connection") \/ Contains(message, "network")
            THEN "RETRYABLE"
          ELSE "UNKNOWN"

Classify ==
  /\ lib.call = "classify_error"
  /\ lib.out = "none"
  /\ lib' = [lib EXCEPT !.out = classify_error(lib.error)]
  /\ UNCHANGED sysVars

SpecClassify == InitClassify /\ [][Classify]_vars

\* The phrase rules in their stated order.
C17_Rules ==
  << [tag |-> "RATE_LIMIT", phrases |-> {"rate limit", "429"}],
     [tag |-> "TIMEOUT", phrases |-> {"timeout", "timed out"}],
     [tag |-> "PARSE_ERROR", phrases |-> {"parse", "decode"}],
     [tag |-> "LLM_ERROR", phrases |-> {"openai", "llm"}],
     [tag |-> "PERMANENT", phrases |-> {"permission", "not found"}],
     [tag |-> "RETRYABLE", phrases |-> {"connection", "network"}] >>

\* The rules a message matches, whatever the case it is written in.
C17_Matching(m) ==
  {r \in 1..Len(C17_Rules) :
     \E i \in 1..Len(m) : m[i].text \in C17_Rules[r].phrases}

\* C17: classify returns one of the seven tags; a typed error gets its
\* declared tag whatever its text; an untyped error gets the tag of the
\* earliest rule its message matches, and UNKNOWN when it matches none.
C17_Classification ==
  (lib.call = "classify_error" /\ lib.out # "none") =>
    LET e == lib.error
        hits == C17_Matching(e.message)
    IN /\ lib.out \in ErrorTags
       /\ e.typed # "none" => lib.out = e.typed
       /\ (e.typed = "none" /\ hits = {}) => lib.out = "UNKNOWN"
       /\ (e.typed = "none" /\ hits # {})
            => lib.out = C17_Rules[CHOOSE r \in hits : \A o \in hits : r <= o].tag

C17_Witness ==
  /\ lib.call = "classify_error"
  /\ lib.error.typed = "none"
  /\ Len(lib.error.message) = 2
  /\ lib.error.message[1].text = "network"
  /\ lib.error.message[2].text = "timed out"
  /\ lib.error.message[2].upper
  /\ lib.out = "TIMEOUT"

\* ---------------------------------------------- core library: computeDelay
MaxBase == 2
MaxDelay == 9
MaxBackoffAttempt == 3

\* Delays are whole multiples of one time unit. The policy is asked for the
\* delay of attempt 0, 1, 2, ... in turn, as the retry wrapper asks.
InitBackoff ==
  /\ SystemAtRest
  /\ \E base \in 1..MaxBase :
       \E mx \in base..MaxDelay :
         lib = [call |-> "calculate_backoff",
                base_delay |-> base,
                max_delay |-> mx,
                attempt |-> 0,       \* the attempt the next call is made with
                jitter |-> 0,        \* what random.uniform returned last
                delay |-> 0,         \* base_delay * 2 ** attempt of the last call
                prev |-> 0,          \* the same of the call before it
                out |-> 0]           \* the last call's result

Min(a, b) == IF a <= b THEN a ELSE b

Max(a, b) == IF a >= b THEN a ELSE b

\* `delay = base_delay * (2 ** attempt)`
BackoffDelay(attempt, base_delay) == base_delay * (2 ^ attempt)

\* The values `random.uniform(0, base_delay * 2 ** max(attempt - 1, 0))` may
\* return, both ends included.
JitterRange(attempt, base_delay) == 0..(base_delay * (2 ^ Max(attempt - 1, 0)))

\* Faulty variant: the sum is returned without the clamp.
Unclamped(attempt, base_delay, max_delay, jitter) ==
  BackoffDelay(attempt, base_delay) + jitter

\* calculate_backoff, with the random draw as a parameter.
calculate_backoff(attempt, base_delay, max_delay, jitter) ==
  Min(BackoffDelay(attempt, base_delay) + jitter, max_delay)

CalculateBackoff ==
  /\ lib.call = "calculate_backoff"
  /\ lib.attempt <= MaxBackoffAttempt
  /\ \E jitter \in JitterRange(lib.attempt, lib.base_delay) :
       lib' = [lib EXCEPT
                 !.jitter = jitter,
                 !.prev = lib.delay,
                 !.delay = BackoffDelay(lib.attempt, lib.base_delay),
                 !.out = calculate_backoff(lib.attempt, lib.base_delay,
                                           lib.max_delay, jitter),
                 !.attempt = @ + 1]
  /\ UNCHANGED sysVars

SpecBackoff == InitBackoff /\ [][CalculateBackoff]_vars

\* C18: for base > 0, max >= base and any jitter of the allowed range, the
\* delay lies in 0..max, and the component without jitter does not decrease
\* from one attempt to the next, clamped at max or not.
C18_DelayBounded ==
  (lib.call = "calculate_backoff" /\ lib.attempt > 0) =>
    /\ 0 <= lib.out
    /\ lib.out <= lib.max_delay
    /\ lib.prev <= lib.delay
    /\ Min(lib.prev, lib.max_delay) <= Min(lib.delay, lib.max_delay)
    /\ lib.out >= Min(lib.delay, lib.max_delay)

C18_Witness ==
  /\ lib.call = "calculate_backoff"
  /\ lib.attempt = 3
  /\ lib.prev < lib.max_delay
  /\ lib.delay < lib.max_delay
  /\ lib.jitter > 0
  /\ lib.delay + lib.jitter > lib.max_delay
  /\ lib.out = lib.max_delay

\* ------------------------------------------ core library: the retry wrapper
MaxWrapAttempts == 3

\* RetryConfig defaults, in seconds.
base_delay_seconds == 2
max_delay_seconds == 60

\* The exception classes the wrapped function may raise.
ErrorClasses == {"RuntimeError", "ValueError"}

\* wrapper starts: attempt = 0, about to call the function. The configuration
\* is any max_attempts up to the bound and any tuple of retryable classes.
InitRetry ==
  /\ SystemAtRest
  /\ \E n \in 0..MaxWrapAttempts, r \in SUBSET ErrorClasses :
       lib = [call |-> "retry_with_backoff",
              config |-> [max_attempts |-> n, retryable_exceptions |-> r],
              at |-> "call",        \* call | sleep | returned | raised
              attempt |-> 0,
              delay |-> 0,          \* the pause before the next call
              calls |-> 0,          \* history: calls of the function
              errs |-> <<>>]        \* history: the errors it raised, in order

\* Faulty variant: one more retry is granted.
RetryOnceMore(error, attempt, config) ==
  IF attempt > config.max_attempts THEN FALSE
  ELSE error \in config.retryable_exceptions

\* should_retry; isinstance is membership in the configured classes.
should_retry(error, attempt, config) ==
  IF attempt >= config.max_attempts THEN FALSE
  ELSE error \in config.retryable_exceptions

\* One pass of `while True` up to the sleep: the function is called and
\* returns or raises; a raised error is re-raised or a delay is computed.
WrapperCall ==
  /\ lib.call = "retry_with_backoff"
  /\ lib.at = "call"
  /\ \/ lib' = [lib EXCEPT !.calls = @ + 1, !.at = "returned"]
     \/ \E error \in ErrorClasses :
          IF ~should_retry(error, lib.attempt, lib.config)
            THEN lib' = [lib EXCEPT !.calls = @ + 1,
                                    !.errs = Append(@, error),
                                    !.at = "raised"]
            ELSE \E jitter \in JitterRange(lib.attempt, base_delay_seconds) :
                   lib' = [lib EXCEPT
                             !.calls = @ + 1,
                             !.errs = Append(@, error),
                             !.delay = calculate_backoff(lib.attempt, base_delay_seconds,
                                                         max_delay_seconds, jitter),
                             !.at = "sleep"]
  /\ UNCHANGED sysVars

\* time.sleep(delay) returns; attempt += 1.
WrapperSleep ==
  /\ lib.call = "retry_with_backoff"
  /\ lib.at = "sleep"
  /\ lib' = [lib EXCEPT !.attempt = @ + 1, !.at = "call"]
  /\ UNCHANGED sysVars

RetryNext ==
  \/ WrapperCall
  \/ WrapperSleep

SpecRetry == InitRetry /\ [][RetryNext]_vars

\* The wrapped function returns or raises every time it is called, and a
\* finite sleep ends.
SpecRetryLive == SpecRetry /\ WF_vars(WrapperCall) /\ WF_vars(WrapperSleep)

C19_AllRetryable ==
  \A i \in 1..Len(lib.errs) : lib.errs[i] \in lib.config.retryable_exceptions

C19_Counts ==
  lib.call = "retry_with_backoff" =>
    /\ lib.calls <= lib.config.max_attempts + 1
    /\ lib.at = "returned"
         => /\ Len(lib.errs) <= lib.config.max_attempts
            /\ lib.calls = Len(lib.errs) + 1
            /\ C19_AllRetryable
    /\ (lib.at = "raised" /\ C19_AllRetryable)
         => lib.calls = lib.config.max_attempts + 1
    /\ (lib.errs # <<>> /\ lib.errs[1] \notin lib.config.retryable_exceptions)
         => lib.at = "raised" /\ lib.calls = 1
    /\ lib.at = "raised" => lib.calls = Len(lib.errs)
    /\ lib.at = "sleep"
         => /\ lib.attempt < lib.config.max_attempts
            /\ lib.errs[Len(lib.errs)] \in lib.config.retryable_exceptions

\* C19: the wrapper calls the function again only while shouldRetry holds:
\* maxAttempts + 1 calls and then the error when every call fails with a
\* retryable error, k + 1 calls and the result after k <= maxAttempts
\* failures, one call and the error when the first error is not retryable;
\* and the wrapper always comes to an end.
C19_BoundedRetries ==
  /\ []C19_Counts
  /\ <>(lib.call = "retry_with_backoff" => lib.at \in {"returned", "raised"})

C19_Witness ==
  /\ lib.call = "retry_with_backoff"
  /\ lib.config.max_attempts = 2
  /\ lib.at = "raised"
  /\ C19_AllRetryable
  /\ lib.calls = 3
  /\ lib.delay > base_delay_seconds * 2

\* ------------------------------------------ one consumer, a failing store
\* The batch of Init with a store that may fail during a dispatch.
InitFaulty ==
  /\ files = [d \in Docs |-> IF d <= NumDocs THEN NewFile(STATUS_PENDING) ELSE NoFile]
  /\ frun = [d \in Docs |-> BatchId]
  /\ batch = [status |-> JOB_PROCESSING, total |-> NumDocs, completed |-> 0,
              run_id |-> NoId]
  /\ rsRows = <<>>
  /\ hasView = TRUE
  /\ queue = InitialQueue
  /\ delayed = EmptyBag
  /\ dead = <<>>
  /\ inflight = {}
  /\ nextJid = MaxDocs
  /\ graceOver = FALSE
  /\ faults = MaxFaults
  /\ IdleConsumers
  /\ hist = NoHist
  /\ lib = NoLib

\* The one worker keeps running its loop and time passes.
DispatchFairness ==
  /\ WF_vars(RetryDue)
  /\ WF_vars(GraceElapses)
  /\ WF_vars(DrainRead(1))
  /\ WF_vars(DrainMove(1))
  /\ WF_vars(Dequeue(1))
  /\ WF_vars(ProcessFile(1))
  /\ WF_vars(FinalizeRead(1))
  /\ WF_vars(FinalizeWrite(1))
  /\ WF_vars(Commit(1))
  /\ WF_vars(StartSweep(1))

SpecFaultyLive == InitFaulty /\ [][DispatchNext]_vars /\ DispatchFairness

\* The job ids of the messages waiting in the live queue.
QueuedJobs == {queue[i].jid : i \in 1..Len(queue)}

\* C20: a dispatch that ends with an exception takes the consumer back to the
\* dequeue step with the queue as it was, and every message in the queue is
\* dequeued in the end, whether a dispatch failed before or not.
C20_LoopSurvives ==
  /\ [][(pc[1] = "commit" /\ sess[1].failed /\ pc'[1] # "commit")
          => (pc'[1] = "idle" /\ queue' = queue)]_vars
  /\ \A j \in 1..(MaxDocs + NumDocs * MaxRequeue) :
       (j \in QueuedJobs) ~> (j \notin QueuedJobs \/ BoundReached)

C20_Witness ==
  /\ faults < MaxFaults
  /\ pc[1] = "pf_start"
  /\ cur[1].attempt > 0
  /\ batch.status = JOB_PROCESSING

\* ------------------------------------------- one consumer, any message
MaxQueue == 2

AggregateMsg(b, j) ==
  [type |-> "aggregate_batch", doc |-> 0, batch |-> b, attempt |-> 0, jid |-> j]

\* What a producer may have put on the queue under job id j: a process_file
\* message with a doc id of the batch or without one, an aggregate_batch
\* message with or without the batch id, a message of a type the worker does
\* not know, and a payload that is not a JSON object.
Payloads(j) ==
  {[ProcessFileMsg(d, BatchId, j) EXCEPT !.doc = d] : d \in 0..NumDocs}
    \cup {AggregateMsg(b, j) : b \in {BatchId, NoId}}
    \cup {[NoMsg EXCEPT !.type = "unknown", !.jid = j],
          [NoMsg EXCEPT !.type = "invalid", !.jid = j]}

\* Faulty variant: the retry of an aggregation is granted one attempt more.
AggregateOnceMore(attempt) == attempt < max_retry_attempts

\* `attempt = job.get("attempt", 0) + 1; if attempt < config.max_retry_attempts`
AggregateRetryAllowed(attempt) == attempt + 1 < max_retry_attempts

\* The aggregate_batch branch of main (lines 331-360) inside its session:
\* aggregate_batch writes and flushes the run summary, or raises (the batch is
\* unknown, or the merge or the store fails).  On an exception the message is
\* scheduled again with its attempt counted up, or dead-lettered as it is, and
\* the exception is raised again: get_session rolls the transaction back.
AggregateBatch(c) ==
  /\ UNCHANGED lib
  /\ pc[c] = "agg"
  /\ LET m == cur[c]
         job == get_batch_by_id(c, m.batch)
         stats == get_batch_statistics(c, job)
     IN \E outcome \in {"ok", "error"} :
          /\ outcome = "ok" =>
               /\ job.status # Absent
               /\ ~SummaryLockedByOther(c, stats.run_id)
               /\ sess' = [sess EXCEPT
                             ![c].rs = create_or_update_run_summary(c, stats)]
               /\ UNCHANGED <<delayed, dead>>
          /\ outcome = "error" =>
               /\ sess' = [sess EXCEPT ![c].failed = TRUE]
               /\ IF AggregateRetryAllowed(m.attempt)
                    THEN /\ delayed' = _schedule_retry(delayed, RetryCopy(m))
                         /\ dead' = dead
                    ELSE /\ dead' = Append(dead, m)
                         /\ delayed' = delayed
  /\ pc' = [pc EXCEPT ![c] = "commit"]
  /\ UNCHANGED <<storeVars, queue, inflight, nextJid, envVars, cur, finBatch,
                 ready, hist>>

\* The batch of Init, a store that may fail, and any MaxQueue messages on the
\* queue, the message with job id 1 at the tail.
InitMessages ==
  /\ files = [d \in Docs |-> IF d <= NumDocs THEN NewFile(STATUS_PENDING) ELSE NoFile]
  /\ frun = [d \in Docs |-> BatchId]
  /\ batch = [status |-> JOB_PROCESSING, total |-> NumDocs, completed |-> 0,
              run_id |-> NoId]
  /\ rsRows = <<>>
  /\ hasView = TRUE
  /\ \E q \in [1..MaxQueue -> UNION {Payloads(j) : j \in 1..MaxQueue}] :
       /\ \A i \in 1..MaxQueue : q[i].jid = MaxQueue + 1 - i
       /\ queue = q
  /\ delayed = EmptyBag
  /\ dead = <<>>
  /\ inflight = {}
  /\ nextJid = MaxDocs
  /\ graceOver = FALSE
  /\ faults = MaxFaults
  /\ IdleConsumers
  /\ hist = NoHist
  /\ lib = NoLib

MessagesNext ==
  \/ DispatchNext
  \/ AggregateBatch(1)

SpecMessages == InitMessages /\ [][MessagesNext]_vars

\* A consumer is between two dispatches: at the dequeue step or draining.
AtRest(c) == pc[c] \in {"idle", "drain"}

\* C21: a job id is in the in-flight set only while a consumer dispatches a
\* message with that id; it is put there when the dispatch starts and taken
\* out when the dispatch ends, however it ends; with every consumer between
\* dispatches the set is empty.
C21_InflightTracksDispatch ==
  /\ [](\A j \in inflight :
          \E c \in Consumers : ~AtRest(c) /\ cur[c].type # "none" /\ cur[c].jid = j)
  /\ []((\A c \in Consumers : AtRest(c)) => inflight = {})
  /\ [][\A c \in Consumers :
          /\ (AtRest(c) /\ pc'[c] \in {"pf_start", "agg"})
               => cur'[c].jid \in inflight'
          /\ (~AtRest(c) /\ cur[c].type # "none" /\ AtRest(c)')
               => cur[c].jid \notin inflight']_vars

C21_Witness ==
  /\ pc[1] = "idle"
  /\ inflight = {}
  /\ faults < MaxFaults
  /\ Len(dead) = 1
  /\ dead[1].type = "aggregate_batch"
  /\ queue # <<>>
  /\ brpop(queue).type = "process_file"
  /\ brpop(queue).attempt > 0

\* The messages main could not read or whose type it does not know.
C22_Unreadable(m) == m.type \in {"unknown", "invalid"}

\* C22: the step that takes a message of unknown type or a payload that is
\* not JSON off the queue changes no file, batch or run summary, schedules no
\* retry and dead-letters nothing; such a message is in neither the delayed set
\* nor the dead-letter list, and once dropped it is not on the queue either.
C22_DroppedQuietly ==
  /\ [][(queue # <<>> /\ queue' = AfterPop(queue) /\ C22_Unreadable(brpop(queue)))
          => /\ UNCHANGED <<files, frun, batch, rsRows, delayed, dead, sess, pc>>
             /\ brpop(queue) \in hist'.dropped]_vars
  /\ [](\A e \in BagToSet(delayed) : ~C22_Unreadable(e.m))
  /\ [](\A i \in 1..Len(dead) : ~C22_Unreadable(dead[i]))
  /\ [](\A m \in hist.dropped :
          C22_Unreadable(m) => \A i \in 1..Len(queue) : queue[i] # m)

C22_Witness ==
  /\ \E m \in hist.dropped : m.type = "unknown"
  /\ \E m \in hist.dropped : m.type = "invalid"
  /\ queue = <<>>
  /\ pc[1] = "idle"

\* ------------------------------------------- main: the delay of a retry
MaxDelayField == 4

\* `job.get("retry_delay_ms", 2000)`
default_retry_delay_ms == 2000

\* A failed process_file message as main holds it when it schedules the retry:
\* its attempt so far, its retry_delay_ms field (None when the producer left it
\* out), and the clock in seconds.
InitSchedule ==
  /\ SystemAtRest
  /\ \E a \in 0..MaxBackoffAttempt, now \in 0..MaxClock,
        ms \in {None} \cup {1000 * k : k \in 0..MaxDelayField} :
       lib = [call |-> "schedule_retry",
              job |-> [attempt |-> a, retry_delay_ms |-> ms],
              now |-> now,
              done |-> FALSE,
              delay_ms |-> 0,       \* delay_seconds, in milliseconds
              retry_at_ms |-> 0]    \* the score of the delayed entry

\* `max(1.0, float(job.get("retry_delay_ms", 2000)) / 1000.0)`, in milliseconds.
RetryDelayMs(job) ==
  Max(1000, IF job.retry_delay_ms = None THEN default_retry_delay_ms
            ELSE job.retry_delay_ms)

\* main lines 306-319 and _schedule_retry: the attempt is counted up, the
\* delay computed and the message stored with score now + delay.
ScheduleRetry ==
  /\ lib.call = "schedule_retry"
  /\ ~lib.done
  /\ lib' = [lib EXCEPT !.done = TRUE,
                        !.job.attempt = @ + 1,
                        !.delay_ms = RetryDelayMs(lib.job),
                        !.retry_at_ms = 1000 * lib.now + RetryDelayMs(lib.job)]
  /\ UNCHANGED sysVars

SpecSchedule == InitSchedule /\ [][ScheduleRetry]_vars

\* The delays the Backoff Policy allows for attempt a, in milliseconds.
C23_PolicyAllows(a, ms) ==
  /\ ms >= 1000 * Min(BackoffDelay(a, base_delay_seconds), max_delay_seconds)
  /\ ms <= 1000 * Min(BackoffDelay(a, base_delay_seconds)
                        + base_delay_seconds * (2 ^ Max(a - 1, 0)),
                      max_delay_seconds)

\* C23: the delay of a scheduled queue-level retry is the Backoff Policy's
\* delay for the message's attempt, counted before or after the increment,
\* and the due time is now plus that delay.
C23_PolicyDelay ==
  (lib.call = "schedule_retry" /\ lib.done) =>
    /\ lib.retry_at_ms = 1000 * lib.now + lib.delay_ms
    /\ \/ C23_PolicyAllows(lib.job.attempt - 1, lib.delay_ms)
       \/ C23_PolicyAllows(lib.job.attempt, lib.delay_ms)

\* The retry with job id j and attempt a waits in the delayed set.
C24_Scheduled(j, a) ==
  \E e \in BagToSet(delayed) : e.m.jid = j /\ e.m.attempt = a

\* A consumer has dequeued the retry with job id j and attempt a.
C24_Dispatched(j, a) ==
  \E c \in Consumers : ~AtRest(c) /\ cur[c].jid = j /\ cur[c].attempt = a

\* How often message m is on the live queue q.
C24_OnQueue(m, q) == Cardinality({i \in 1..Len(q) : q[i] = m})

\* C24: a scheduled retry stays in the delayed set, and off the live queue,
\* until it is due; the drain takes it out of the delayed set by pushing it
\* on the live queue; and with the loop running every scheduled retry is
\* dequeued for dispatch in the end (within the model's cap on attempts).
C24_RetryDelivered ==
  /\ [][\A e \in BagToSet(delayed) :
          /\ ~e.due => /\ \E n \in BagToSet(delayed') : n.m = e.m
                       /\ C24_OnQueue(e.m, queue') <= C24_OnQueue(e.m, queue)
          /\ CopiesIn(e, delayed') < CopiesIn(e, delayed)
               => \/ ~e.due /\ [e EXCEPT !.due = TRUE] \in BagToSet(delayed')
                  \/ e.due /\ queue' = lpush(queue, e.m)]_vars
  /\ \A j \in 1..(MaxDocs + NumDocs * MaxRequeue) :
       \A a \in 1..max_retry_attempts :
         C24_Scheduled(j, a) ~> (C24_Dispatched(j, a) \/ BoundReached)

C24_Witness ==
  /\ faults = MaxFaults
  /\ pc[1] = "pf_start"
  /\ cur[1].attempt = 1
  /\ delayed = EmptyBag
  /\ hist.fails[cur[1].doc] = 1

\* C25: when the aggregation of an aggregate_batch message fails, the message
\* is scheduled again with its attempt counted up if attempt + 1 is below the
\* maximum, and dead-lettered otherwise, whatever the files' retry counts; the
\* transaction is then rolled back: nothing of it reaches the store.
C25_AggregateFailure ==
  [][\A c \in Consumers :
       LET m == cur[c] IN
       /\ (pc[c] = "agg" /\ pc'[c] # "agg" /\ sess'[c].failed)
            => /\ pc'[c] = "commit"
               /\ IF m.attempt + 1 < max_retry_attempts
                    THEN /\ delayed' = delayed (+) SetToBag({[m |-> [m EXCEPT !.attempt = @ + 1],
                                                               due |-> FALSE]})
                         /\ dead' = dead
                    ELSE /\ dead' = dead \o <<m>>
                         /\ delayed' = delayed
       /\ (pc[c] = "commit" /\ m.type = "aggregate_batch" /\ sess[c].failed
             /\ pc'[c] # "commit")
            => /\ UNCHANGED <<files, frun, batch, rsRows>>
               /\ pc'[c] = "idle"]_vars

C25_Witness ==
  /\ pc[1] = "commit"
  /\ sess[1].failed
  /\ cur[1].type = "aggregate_batch"
  /\ cur[1].attempt = max_retry_attempts - 1
  /\ dead = <<cur[1]>>
  /\ delayed = EmptyBag
  /\ rsRows = <<>>

\* The messages a step has pushed on the head of the live queue.
C26_Pushed == SubSeq(queue', 1, Len(queue') - Len(queue))

\* C26: a finalizer call that finds the batch not complete, with pending files
\* and none processing, pushes one fresh process_file message (attempt 0, a
\* new job id, the batch id) per pending doc id on the live queue and leaves
\* the batch status alone; with a file processing it pushes nothing.
C26_Redispatch ==
  [][\A c \in Consumers :
       LET job == get_batch_by_id(c, finBatch[c])
           key == CountKey(c, job)
           pend == DocsIn(c, key, {STATUS_PENDING})
           processing == CountIn(c, key, {STATUS_PROCESSING})
       IN (/\ pc[c] = "fin_read"
           /\ pc'[c] # "fin_read"
           /\ job.status \notin Terminal \cup {Absent}
           /\ pend # {})
            => /\ batch' = batch
               /\ sess'[c].job.status = job.status
               /\ Len(queue') >= Len(queue)
               /\ SubSeq(queue', Len(queue') - Len(queue) + 1, Len(queue')) = queue
               /\ processing > 0 => queue' = queue
               /\ processing = 0 =>
                    /\ Len(C26_Pushed) = Cardinality(pend)
                    /\ \A d \in pend :
                         \E i \in 1..Len(C26_Pushed) : C26_Pushed[i].doc = d
                    /\ \A i \in 1..Len(C26_Pushed) :
                         /\ C26_Pushed[i].type = "process_file"
                         /\ C26_Pushed[i].attempt = 0
                         /\ C26_Pushed[i].batch = finBatch[c]
                         /\ C26_Pushed[i].jid > nextJid
                         /\ \A k \in 1..Len(C26_Pushed) :
                              C26_Pushed[k].jid = C26_Pushed[i].jid => k = i]_vars

\* The batch is in status processing, its committed files satisfy the
\* completion predicate, and no message and no finalizer call is left that
\* could finalize it.
C27_Missed ==
  /\ batch.status = JOB_PROCESSING
  /\ batch.total > 0
  /\ Committed({STATUS_PENDING, STATUS_PROCESSING}) = 0
  /\ Committed({STATUS_SUCCESS, STATUS_FAILED}) >= batch.total
  /\ queue = <<>>
  /\ delayed = EmptyBag
  /\ \A c \in Consumers : pc[c] = "idle"

\* C27: a batch whose finalization was missed is finalized in the end, by a
\* sweep, once the grace window has passed and the loop keeps running.
C27_SweeperFinalizes == C27_Missed ~> (batch.status \in Terminal)

C27_Witness ==
  /\ pc[1] = "commit"
  /\ cur[1] = NoMsg
  /\ sess[1].jobFlushed
  /\ ~sess[1].failed
  /\ faults < MaxFaults
  /\ batch.status = JOB_PROCESSING
  /\ queue = <<>>
  /\ delayed = EmptyBag

\* ------------------------------------------- one sweep over several batches
NumBatches == 3
MaxSweepFaults == 1
MaxSweeps == 2

\* `LIMIT 5` and `INTERVAL '10 seconds'` of the sweeper's query.
sweep_limit == 5
grace_seconds == 10

SweepBatches == 1..NumBatches

\* Seconds since a batch's last file completed.
Ages == {10 * k - 5 : k \in 1..(NumBatches + 1)}

\* The committed rows the sweeper's query joins: the job's status and the
\* batch's row of batch_status_summary (every batch has NumDocs files, none
\* of them processing).
SweepJobs ==
  [status : {JOB_PROCESSING},
   total_files : {NumDocs},
   files_failed : 0..1,
   files_pending : 0..1,
   age : Ages]

InitSweep ==
  /\ SystemAtRest
  /\ \E jobs \in [SweepBatches -> SweepJobs] :
       /\ \A a, b \in SweepBatches : a # b => jobs[a].age # jobs[b].age
       /\ lib = [call |-> "sweep",
                 jobs |-> jobs,                \* committed
                 summaries |-> {},             \* committed run summaries
                 img |-> [b \in SweepBatches |-> JOB_PROCESSING],
                 imgSummaries |-> {},          \* the session's flushed image
                 at |-> "query",
                 rows |-> <<>>,
                 pos |-> 1,
                 raised |-> {},                \* batches whose step raised
                 sweeps |-> 1,
                 faults |-> MaxSweepFaults]

\* The WHERE clause of the sweeper's query.
SweepMatches(j) ==
  /\ j.status = JOB_PROCESSING
  /\ CompletionMet(j.total_files, j.files_pending, 0,
                   j.total_files - j.files_failed - j.files_pending,
                   j.files_failed)
  /\ j.age > grace_seconds

RECURSIVE OldestFirst(_, _)
\* `ORDER BY bss.last_file_completed_at ASC` over the batches in S.
OldestFirst(jobs, S) ==
  IF S = {} THEN <<>>
  ELSE LET b == CHOOSE x \in S : \A y \in S : jobs[x].age >= jobs[y].age
       IN <<b>> \o OldestFirst(jobs, S \ {b})

\* The result of the sweeper's query.
stuck_batches(jobs) ==
  LET all == OldestFirst(jobs, {b \in SweepBatches : SweepMatches(jobs[b])})
  IN SubSeq(all, 1, Min(Len(all), sweep_limit))

\* `except Exception: session.rollback()` around the query and the loop: the
\* session's image is discarded and the sweep is over.
SweepRollback(l, b) ==
  [l EXCEPT !.img = [x \in SweepBatches |-> l.jobs[x].status],
            !.imgSummaries = l.summaries,
            !.raised = @ \cup b,
            !.faults = @ - 1,
            !.at = "done"]

\* The query of _check_stuck_batches.
SweepQuery ==
  /\ lib.call = "sweep"
  /\ lib.at = "query"
  /\ \/ LET rows == stuck_batches(lib.jobs)
        IN lib' = [lib EXCEPT !.rows = rows,
                              !.pos = 1,
                              !.at = IF rows = <<>> THEN "done" ELSE "finalize"]
     \/ /\ lib.faults > 0
        /\ lib' = SweepRollback(lib, {})
  /\ UNCHANGED sysVars

\* _maybe_finalize_batch on the row at hand: the status is set and flushed,
\* the aggregation runs and its failure is swallowed; a failure of the store
\* leaves through the sweeper's except clause.
SweepFinalize ==
  /\ lib.call = "sweep"
  /\ lib.at = "finalize"
  /\ LET b == lib.rows[lib.pos]
         status == FinalStatus(lib.jobs[b].files_failed)
     IN \/ \E aggregated \in BOOLEAN :
             lib' = [lib EXCEPT !.img[b] = status,
                                !.imgSummaries =
                                  IF aggregated THEN @ \cup {b} ELSE @,
                                !.at = "commit"]
        \/ /\ lib.faults > 0
           /\ lib' = SweepRollback(lib, {b})
  /\ UNCHANGED sysVars

\* `session.commit()  # Commit each batch separately` and the loop's next
\* turn.
SweepCommit ==
  /\ lib.call = "sweep"
  /\ lib.at = "commit"
  /\ LET b == lib.rows[lib.pos]
     IN \/ lib' = [lib EXCEPT
                     !.jobs = [x \in SweepBatches |->
                                 [lib.jobs[x] EXCEPT !.status = lib.img[x]]],
                     !.summaries = lib.imgSummaries,
                     !.pos = @ + 1,
                     !.at = IF lib.pos + 1 > Len(lib.rows)
                            THEN "done" ELSE "finalize"]
        \/ /\ lib.faults > 0
           /\ lib' = SweepRollback(lib, {b})
  /\ UNCHANGED sysVars

\* main runs the next sweep after stuck_check_interval.
SweepAgain ==
  /\ lib.call = "sweep"
  /\ lib.at = "done"
  /\ lib.sweeps < MaxSweeps
  /\ lib' = [lib EXCEPT !.at = "query", !.rows = <<>>, !.pos = 1,
                        !.raised = {}, !.sweeps = @ + 1]
  /\ UNCHANGED sysVars

SweepNext == SweepQuery \/ SweepFinalize \/ SweepCommit \/ SweepAgain

SpecSweep == InitSweep /\ [][SweepNext]_vars

\* The batches handled before the one at hand stay finalized.
C28_EarlierKept ==
  (lib.call = "sweep" /\ lib.at \in {"finalize", "commit", "done"}) =>
    \A i \in 1..Len(lib.rows) :
      i < lib.pos => lib.jobs[lib.rows[i]].status \in Terminal

\* At the end of a sweep every matched batch whose own finalization did not
\* fail is finalized.
C28_RemainingFinalized ==
  (lib.call = "sweep" /\ lib.at = "done") =>
    \A i \in 1..Len(lib.rows) :
      lib.rows[i] \notin lib.raised =>
        lib.jobs[lib.rows[i]].status \in Terminal

\* C28: in one sweep over several matched batches a failure while finalizing
\* one batch neither undoes the finalization of the batches handled before
\* it nor keeps the remaining matched batches from being finalized in that
\* sweep.
C28_SweepIndependent == C28_EarlierKept /\ C28_RemainingFinalized

\* Consumer c has flushed the processing start of doc d in a dispatch that is
\* not yet committed.
C29_Marked(c, d) ==
  /\ Processed(c)
  /\ cur[c].doc = d
  /\ sess[c].flushed.status # Absent

\* The finalizer of consumer o takes its decision while c's mark of d stands.
C29_Concurrent(c, o, d) ==
  /\ c # o
  /\ C29_Marked(c, d)
  /\ pc[o] = "fin_read"
  /\ pc'[o] # "fin_read"

\* The finalizer of o does not go on to finalize the batch.
C29_NotFinalized ==
  [][\A c, o \in Consumers, d \in Docs :
       C29_Concurrent(c, o, d) => pc'[o] # "fin_flush"]_vars

\* The finalizer of o pushes no message for the marked file.
C29_NotRequeued ==
  [][\A c, o \in Consumers, d \in Docs :
       C29_Concurrent(c, o, d) =>
         \A i \in 1..Len(queue') :
           queue'[i].doc = d => \E k \in 1..Len(queue) : queue[k] = queue'[i]]_vars

\* The finalizer of o sees the marked file as processing.
C29_SeenProcessing ==
  [][\A c, o \in Consumers, d \in Docs :
       C29_Concurrent(c, o, d) => VisFile(o, d).status = STATUS_PROCESSING]_vars

\* C29: once process_file has marked a file's processing start, a finalizer
\* run concurrently by another consumer sees the file as processing, so it
\* neither finalizes the batch nor re-enqueues the file.
C29_MarkObserved == C29_SeenProcessing /\ C29_NotFinalized /\ C29_NotRequeued

\* The committed run_summaries rows of run r.
C30_Rows(r) == {i \in 1..Len(rsRows) : rsRows[i].run = r}

\* C30: there is at most one RunSummary per run id, also after two consumers
\* that both saw the batch complete have each aggregated it.
C30_OneSummaryPerRun ==
  \A r \in {BatchId, OtherRun} : Cardinality(C30_Rows(r)) <= 1

\* Two aggregations of the batch were committed, the second by a consumer
\* that had seen the batch complete before the first was committed.
C30_Witness ==
  /\ hist.summarised >= 2
  /\ hist.sealed >= 2
  /\ Cardinality(C30_Rows(BatchId)) = 1

\* A finalizer call on a stored, non-terminal batch commits.
C31_CallCommits(c) ==
  /\ pc[c] = "commit"
  /\ pc'[c] = "idle"
  /\ cur[c] = NoMsg
  /\ ~sess[c].failed
  /\ batch.status \in NonTerminal

\* A total file count of zero is set to the number of the batch's files.
C31_Backfilled ==
  [][\A c \in Consumers :
       (C31_CallCommits(c) /\ batch.total = 0 /\ Committed(FileStatuses) > 0)
         => batch'.total = Committed(FileStatuses)]_vars

\* A non-zero total file count is left as it is.
C31_NonZeroKept ==
  [][\A c \in Consumers :
       (pc[c] = "commit" /\ pc'[c] = "idle" /\ batch.total # 0)
         => batch'.total = batch.total]_vars

\* C31: a finalizer call on a batch whose total file count is zero while k > 0
\* files exist under its run id sets the count to k; a non-zero count is never
\* changed by the finalizer.
C31_BackfillTotal == C31_Backfilled /\ C31_NonZeroKept

\* The key the lookups are to use: the batch's run id (the batch id when it
\* has none), or the batch id when no file is registered under the run id.
C32_Key(c, job) ==
  LET r == IF job.run_id # NoId THEN job.run_id ELSE BatchId
  IN IF DocsIn(c, r, FileStatuses) = {} THEN BatchId ELSE r

\* C32: every lookup of the batch's files made by the finalizer and the
\* aggregator (state counts, statistics, pending doc ids, files to merge) uses
\* the batch's run id and falls back to the batch id when no file exists under
\* the run id.
C32_LookupsFallBack ==
  [][\A c \in Consumers :
       (pc[c] = "fin_read" /\ pc'[c] # "fin_read"
          /\ get_batch_by_id(c, finBatch[c]).status # Absent)
         => LET job == get_batch_by_id(c, finBatch[c])
                key == C32_Key(c, job)
            IN /\ get_batch_state_counts(c, job).run_id = key
               /\ get_batch_state_counts(c, job).pending_files
                    = CountIn(c, key, {STATUS_PENDING})
               /\ get_batch_statistics(c, job).run_id = key
               /\ get_batch_statistics(c, job).total_files
                    = CountIn(c, key, FileStatuses)
               /\ get_batch_files(c, job) = DocsIn(c, key, FileStatuses)
               /\ get_pending_doc_ids(c, job) = DocsIn(c, key, {STATUS_PENDING})]_vars

\* ------------------------------------------------- merging segment results
NumChunks == 2
MaxList == 2

\* JSON values as records of one shape per nesting depth: the kind k (null,
\* str, list, map), the string s, the list l of strings, the map m.
EmptyMap == [key \in {} |-> 0]

\* The maps with keys among K and values among V.
MapsOver(K, V) == UNION {[D -> V] : D \in SUBSET K}

Texts == {"", "v"}

\* The values of field d: scalars.
JLeaves == {[k |-> "null", s |-> ""]} \cup {[k |-> "str", s |-> x] : x \in Texts}

\* The values of field c: scalars and maps of field d.
JInner ==
  {[k |-> "null", s |-> "", m |-> EmptyMap]}
    \cup {[k |-> "str", s |-> x, m |-> EmptyMap] : x \in Texts}
    \cup {[k |-> "map", s |-> "", m |-> n] : n \in MapsOver({"d"}, JLeaves)}

JNull == [k |-> "null", s |-> "", l |-> <<>>, m |-> EmptyMap]

JStr(x) == [k |-> "str", s |-> x, l |-> <<>>, m |-> EmptyMap]

JList(l) == [k |-> "list", s |-> "", l |-> l, m |-> EmptyMap]

JMap(m) == [k |-> "map", s |-> "", l |-> <<>>, m |-> m]

JScalars == {JNull} \cup {JStr(x) : x \in Texts}

JLists == {JList(l) : l \in UNION {[1..n -> {"x", "y"}] : n \in 0..MaxList}}

\* Maps of field c.
JNested == {JMap(m) : m \in MapsOver({"c"}, JInner)}

\* A segment's result: field a a scalar or a list, field b a scalar or a map.
Chunks ==
  {m \in MapsOver({"a", "b"}, JScalars \cup JLists \cup JNested) :
     /\ "a" \in DOMAIN m => m["a"] \in JScalars \cup JLists
     /\ "b" \in DOMAIN m => m["b"] \in JScalars \cup JNested}

InitMerge ==
  /\ SystemAtRest
  /\ \E chunks \in [1..NumChunks -> Chunks] :
       lib = [call |-> "merge", chunks |-> chunks, pos |-> 0, merged |-> EmptyMap]

\* `x in (None, "", [])`
InEmpties(x) ==
  \/ x.k = "null"
  \/ x.k = "str" /\ x.s = ""
  \/ x.k = "list" /\ x.l = <<>>

\* `[item for item in value if item not in merged[key]]`
NotIn(value, old) ==
  SelectSeq(value, LAMBDA item : \A i \in 1..Len(old) : old[i] # item)

\* Faulty variant: the accumulated value is replaced by the later one.
LastWins(old, new) == new

\* The body of the loop over a segment's items for a key already in merged.
MergeValue(old, new) ==
  IF new.k = "list" /\ old.k = "list"
    THEN JList(old.l \o NotIn(new.l, old.l))
  ELSE IF new.k = "map" /\ old.k = "map"
    THEN JMap([key \in DOMAIN old.m \cup DOMAIN new.m |->
                 IF key \notin DOMAIN new.m THEN old.m[key]
                 ELSE IF key \notin DOMAIN old.m THEN new.m[key]
                 ELSE IF InEmpties(old.m[key]) THEN new.m[key]
                 ELSE old.m[key]])
  ELSE IF InEmpties(old) THEN new ELSE old

\* One turn of `for chunk in chunks_data`.
MergeChunk(merged, chunk) ==
  [key \in DOMAIN merged \cup DOMAIN chunk |->
     IF key \notin DOMAIN merged THEN chunk[key]
     ELSE IF key \notin DOMAIN chunk THEN merged[key]
     ELSE MergeValue(merged[key], chunk[key])]

RECURSIVE MergeFrom(_, _, _)
MergeFrom(merged, chunks, i) ==
  IF i > Len(chunks) THEN merged
  ELSE MergeFrom(MergeChunk(merged, chunks[i]), chunks, i + 1)

merge_extractions(chunks_data) == MergeFrom(EmptyMap, chunks_data, 1)

\* The aggregator's merge: the same loop; the de-duplication that follows it
\* applies to other keys than the ones of Chunks.
_merge_dicts(chunks) == MergeFrom(EmptyMap, chunks, 1)

MergeStep ==
  /\ lib.call = "merge"
  /\ lib.pos < Len(lib.chunks)
  /\ lib' = [lib EXCEPT !.pos = @ + 1,
                        !.merged = MergeChunk(@, lib.chunks[lib.pos + 1])]
  /\ UNCHANGED sysVars

SpecMerge == InitMerge /\ [][MergeStep]_vars

RECURSIVE C33_Dedup(_, _)
\* The items of l in first-seen order, each once.
C33_Dedup(l, seen) ==
  IF l = <<>> THEN <<>>
  ELSE IF Head(l) \in seen THEN C33_Dedup(Tail(l), seen)
  ELSE <<Head(l)>> \o C33_Dedup(Tail(l), seen \cup {Head(l)})

\* Fill of a map of scalars: a field is taken from the later map only when it
\* is missing or empty in the accumulated one.
C33_FillLeaves(old, new) ==
  [key \in DOMAIN old \cup DOMAIN new |->
     IF key \notin DOMAIN new THEN old[key]
     ELSE IF key \notin DOMAIN old THEN new[key]
     ELSE IF old[key].k = "null" \/ (old[key].k = "str" /\ old[key].s = "")
       THEN new[key]
     ELSE old[key]]

\* The same one level up: two maps met in a field are filled in turn.
C33_Fill(old, new) ==
  [key \in DOMAIN old \cup DOMAIN new |->
     IF key \notin DOMAIN new THEN old[key]
     ELSE IF key \notin DOMAIN old THEN new[key]
     ELSE IF old[key].k = "map" /\ new[key].k = "map"
       THEN [k |-> "map", s |-> "", m |-> C33_FillLeaves(old[key].m, new[key].m)]
     ELSE IF old[key].k = "null" \/ (old[key].k = "str" /\ old[key].s = "")
       THEN new[key]
     ELSE old[key]]

\* The merge law for a key seen before.
C33_Value(old, new, deep, dedup) ==
  IF old.k = "list" /\ new.k = "list"
    THEN JList(IF dedup THEN C33_Dedup(old.l \o new.l, {})
               ELSE old.l \o NotIn(new.l, old.l))
  ELSE IF old.k = "map" /\ new.k = "map"
    THEN JMap(IF deep THEN C33_Fill(old.m, new.m)
              ELSE MergeValue(old, new).m)
  ELSE IF old.k = "null" \/ (old.k = "str" /\ old.s = "")
            \/ (old.k = "list" /\ old.l = <<>>)
    THEN new
  ELSE old

RECURSIVE C33_Law(_, _, _, _)
\* The segments 1..n merged in order by the merge law.
C33_Law(chunks, n, deep, dedup) ==
  IF n = 0 THEN EmptyMap
  ELSE LET merged == C33_Law(chunks, n - 1, deep, dedup)
           chunk == chunks[n]
       IN [key \in DOMAIN merged \cup DOMAIN chunk |->
             IF key \notin DOMAIN merged THEN chunk[key]
             ELSE IF key \notin DOMAIN chunk THEN merged[key]
             ELSE C33_Value(merged[key], chunk[key], deep, dedup)]

C33_Done == lib.call = "merge" /\ lib.pos = Len(lib.chunks)

\* The law without the recursion into nested maps and with lists united
\* against the accumulated list only.
C33_Shallow == C33_Done => lib.merged = C33_Law(lib.chunks, lib.pos, FALSE, FALSE)

\* The united list holds no item twice.
C33_ListsUnited == C33_Done => lib.merged = C33_Law(lib.chunks, lib.pos, FALSE, TRUE)

\* Nested maps are filled recursively.
C33_Recursive == C33_Done => lib.merged = C33_Law(lib.chunks, lib.pos, TRUE, FALSE)

\* Merging {a:[x], b:{c:null}} then {a:[x,y], b:{c:v}} gives {a:[x,y], b:{c:v}}.
C33_Example ==
  LET inner(x) == JMap([c |-> x])
      first == [a |-> JList(<<"x">>),
                b |-> inner([k |-> "null", s |-> "", m |-> EmptyMap])]
      second == [a |-> JList(<<"x", "y">>),
                 b |-> inner([k |-> "str", s |-> "v", m |-> EmptyMap])]
  IN (C33_Done /\ lib.chunks[1] = first /\ lib.chunks[2] = second
        /\ Len(lib.chunks) = 2)
       => lib.merged = second

\* C33: merging the segments' results in order follows the merge law (an
\* unseen key takes the segment's value, lists are united in first-seen order
\* without duplicates, maps are filled recursively where a field is missing
\* or empty, the first non-empty scalar wins), by merge_extractions and by
\* _merge_dicts alike.
C33_MergeLaw ==
  /\ C33_Done => lib.merged = C33_Law(lib.chunks, lib.pos, TRUE, TRUE)
  /\ C33_Done => merge_extractions(lib.chunks) = lib.merged
  /\ C33_Done => _merge_dicts(lib.chunks) = merge_extractions(lib.chunks)
  /\ C33_Example

\* C34: completed, completed_with_errors and failed are terminal: once the
\* batch is in one of them no finalizer call changes its status.
C34_TerminalKept ==
  [][batch.status \in Terminal \cup {JOB_FAILED}
       => batch'.status = batch.status]_vars

\* The process_file messages for doc d on the live queue, in the delayed set
\* (an entry being drained by several consumers counts once) and in dispatch.
C35_Queued(d) ==
  Cardinality({i \in 1..Len(queue) :
                 queue[i].type = "process_file" /\ queue[i].doc = d})

C35_Delayed(d) ==
  LET es == {e \in BagToSet(delayed) : e.m.type = "process_file" /\ e.m.doc = d}
  IN SumOver([e \in es |-> CopiesIn(e, delayed)], es)

\* A message counts as in dispatch until its processing is over: from then on
\* its retry, if one was scheduled, stands for it.
C35_InDispatch(d) ==
  Cardinality({c \in Consumers :
                 pc[c] = "pf_start" /\ cur[c].type = "process_file"
                   /\ cur[c].doc = d})

\* C35: at any time at most one process_file message per doc id is
\* outstanding across the live queue, the delayed set and the messages being
\* dispatched.
C35_OneMessagePerDoc ==
  \A d \in Docs : C35_Queued(d) + C35_Delayed(d) + C35_InDispatch(d) <= 1

\* No consumer is dispatching a message of doc d.
C36_Settled(d) == \A c \in Consumers : cur[c].doc # d

\* The retry count is within 0..max_retry_attempts.
C36_InRange ==
  \A d \in Docs :
    files[d].status # Absent => files[d].retry \in 0..max_retry_attempts

\* The retry count is the number of dispatches of the file that ended FAILED.
C36_CountsFailures ==
  \A d \in Docs :
    (files[d].status # Absent /\ C36_Settled(d)) => files[d].retry = hist.fails[d]

\* No message of a file is dispatched after one of its messages was
\* dead-lettered.
C36_DeadIsFinal ==
  [][\A c \in Consumers :
       (pc[c] = "idle" /\ pc'[c] = "pf_start")
         => \A i \in 1..Len(dead) : dead[i].doc # cur'[c].doc]_vars

\* C36: a file's retry count is between 0 and max_retry_attempts and equals
\* the number of its dispatches that ended FAILED, and no process_file
\* message of the file is dispatched after its message was dead-lettered.
C36_RetryCount == []C36_InRange /\ []C36_CountsFailures /\ C36_DeadIsFinal

\* A process_file message of doc d is outstanding: on the live queue, in the
\* delayed set, or dequeued and not yet processed.
C37_Outstanding(d) ==
  \/ \E i \in 1..Len(queue) : queue[i].type = "process_file" /\ queue[i].doc = d
  \/ \E e \in BagToSet(delayed) : e.m.type = "process_file" /\ e.m.doc = d
  \/ \E c \in Consumers :
       pc[c] = "pf_start" /\ cur[c].type = "process_file" /\ cur[c].doc = d

\* C37: the batch is never moved to a terminal status while a process_file
\* message for one of its files is outstanding.
C37_NoEarlyFinalization ==
  [][(batch.status \notin Terminal /\ batch'.status \in Terminal)
       => \A d \in Docs : ~C37_Outstanding(d)]_vars

\* The live queue and the delayed set are empty and no consumer is at work.
C38_Quiescent ==
  /\ queue = <<>>
  /\ delayed = EmptyBag
  /\ \A c \in Consumers : pc[c] = "idle"

C38_StatusMatches ==
  /\ batch.status = STATUS_COMPLETED
       => Committed({STATUS_SUCCESS}) = Committed(FileStatuses)
  /\ batch.status = STATUS_COMPLETED_WITH_ERRORS
       => Committed({STATUS_FAILED}) >= 1

C38_SummaryMatches ==
  batch.status \in Terminal
    => \A i \in 1..Len(rsRows) :
         /\ rsRows[i].success = Committed({STATUS_SUCCESS})
         /\ rsRows[i].failed = Committed({STATUS_FAILED})

\* C38: whenever the live queue and the delayed set are empty and no consumer
\* is dispatching, a completed batch has all its files in SUCCESS, a batch
\* completed with errors has a FAILED file, and the run summary of a finalized
\* batch records the current numbers of SUCCESS and FAILED files.
C38_FinalStateConsistent ==
  C38_Quiescent => (C38_StatusMatches /\ C38_SummaryMatches)

\* C39: when several consumers drain the delayed set, every turn of a drain
\* loop moves an entry that is in the delayed set: the entry leaves the set
\* and its message is pushed on the live queue once; no turn pushes a
\* message whose entry another consumer has moved already, and none removes
\* an entry without pushing it.
C39_MovedOnce ==
  [][\A c \in Consumers :
       (pc[c] = "drain" /\ ready'[c] # ready[c])
         => \E e \in BagToSet(delayed) :
              /\ e.due
              /\ delayed' = delayed (-) SetToBag({e})
              /\ queue' = lpush(queue, e.m)]_vars

\* The dispatch of consumer c is that of a process_file message without batch
\* id, for a file of the batch, whose run id differs from the batch id, and
\* with it the session sees every file of the batch resolved.
C40_LastFileByRunId(c) ==
  /\ pc[c] = "fin_read"
  /\ cur[c].type = "process_file"
  /\ cur[c].batch = NoId
  /\ batch.status = JOB_PROCESSING
  /\ batch.run_id \notin {NoId, BatchId}
  /\ frun[cur[c].doc] = batch.run_id
  /\ CompletionMet(batch.total,
                   CountIn(c, batch.run_id, {STATUS_PENDING}),
                   CountIn(c, batch.run_id, {STATUS_PROCESSING}),
                   CountIn(c, batch.run_id, {STATUS_SUCCESS}),
                   CountIn(c, batch.run_id, {STATUS_FAILED}))

\* C40: for a batch whose run id differs from its batch id the completion of
\* its last file through a process_file message without batch id finalizes
\* the batch in the same dispatch.
C40_FinalizedByRunId ==
  [][\A c \in Consumers :
       (C40_LastFileByRunId(c) /\ pc'[c] # pc[c]) => pc'[c] = "fin_flush"]_vars

\* The same for a message that carries the batch id.
C40_FinalizedByBatchId ==
  [][\A c \in Consumers :
       (/\ pc[c] = "fin_read"
        /\ cur[c].type = "process_file"
        /\ cur[c].batch = BatchId
        /\ batch.status = JOB_PROCESSING
        /\ batch.run_id \notin {NoId, BatchId}
        /\ frun[cur[c].doc] = batch.run_id
        /\ CompletionMet(batch.total,
                         CountIn(c, batch.run_id, {STATUS_PENDING}),
                         CountIn(c, batch.run_id, {STATUS_PROCESSING}),
                         CountIn(c, batch.run_id, {STATUS_SUCCESS}),
                         CountIn(c, batch.run_id, {STATUS_FAILED}))
        /\ pc'[c] # pc[c])
         => pc'[c] = "fin_flush"]_vars

====
